---------------------------- MODULE Spec2Model ----------------------------
(***************************************************************************)
(* A model of gh-fake-analyzer's fetch layer and analysis helpers:         *)
(*   - APIUtils.github_api_request / _handle_rate_limit   (utils/api.py)   *)
(*   - APIUtils.fetch_all_pages                           (utils/api.py)   *)
(*   - ConcurrentExecutor.run_api_requests          (utils/concurrent.py)  *)
(*   - EmailCategorizer._identify_owner_details (modules/categorize_..py)  *)
(*   - GitHubDataFilter.filter_by_creation_date       (modules/filter.py)  *)
(*   - GitHubProfileAnalyzer.generate_report         (modules/analyze.py)  *)
(*   - GitHubDataFilter.filter_commits_by_similarity  (modules/filter.py)  *)
(*   - GitCloneManager.fetch_repository_commits        (utils/github.py)   *)
(*   - EmailCategorizer.categorize_emails       (modules/categorize_..py)  *)
(*   - process_target and the targets loop of terminal     (terminal.py)   *)
(*   - ConcurrentExecutor._make_api_request         (utils/concurrent.py)  *)
(*   - ConcurrentExecutor.run_concurrent            (utils/concurrent.py)  *)
(*   - DataManager.save_to_json                          (utils/data.py)   *)
(*   - the --monitor branch of terminal and GitHubMonitor.monitor          *)
(*   - how fetch_repository_commits fills commits_data (utils/github.py)   *)
(* Each component has its own specification (SpecApi, SpecPages, SpecCat,  *)
(* SpecCatFair, SpecDate, SpecExt, SpecSim, SpecClone, SpecRun,            *)
(* SpecEmails, SpecReport, SpecBatch, SpecMake, SpecConc, SpecSave,        *)
(* SpecMonitor, SpecCollect) over the shared variables; the                *)
(* variables of the components a specification does not run stay at their  *)
(* initial values.                                                         *)
(*                                                                         *)
(* Python strings are modelled as tuples of one-character strings, so that *)
(* lower(), int(), "in" and == are computed and not assumed.               *)
(***************************************************************************)
EXTENDS Integers, Sequences, FiniteSets, TLC

VARIABLES
    \* ---- github_api_request (one call) ----
    apiPc,            \* "loop" | "returned" | "exited" | "raised"
    retry_count,      \* local retry_count
    requests_issued,  \* number of session.get calls made by this call
    sleeps,           \* number of time.sleep calls made by this call
    api_result,       \* <<>> while nothing was returned, else <<body, headers>>
    last_response,    \* the response of the latest session.get
    last_sleep,       \* <<>> or <<n>>: the time.sleep that followed last_response
    only_rate_limited,\* every response so far had status 403 or 429
    \* ---- fetch_all_pages (one call) ----
    pgPc,             \* "start" | "batches" | "returned" | "raised"
    upstream,         \* the provider's items, in provider order
    limit,            \* <<>> for limit=None, else <<k>>
    results,          \* local results
    all_results,      \* local all_results
    page_requests,    \* local page_requests (page numbers)
    batch_start,      \* loop variable i of the batch loop
    page_outcome,     \* page number -> "ok" | "fail" | "exc" | "unfetched"
    pg_return,        \* the returned list
    \* ---- EmailCategorizer._identify_owner_details ----
    catPc,            \* "seed" | "closure" | "done"
    commits,          \* the commits argument
    commit_idx,       \* position of the for loop over commits
    owner_identities, \* self.owner_identities
    owner_name_email_pairs, \* self.owner_name_email_pairs
    changed,          \* local changed
    passes,           \* number of completed passes of the while loop
    pass_added,       \* pairs added during the current pass
    \* ---- GitHubDataFilter.filter_by_creation_date ----
    datePc,           \* "loop" | "returned"
    commits_data,     \* repo index -> list of commits (author date strings)
    account_created_at, \* the account's created_at string
    repo_idx,         \* position of the for loop over commits_data.items()
    date_filter,      \* local date_filter
    \* ---- generate_report: external contributions ----
    extPc,            \* "prs" | "normalize" | "classify" | "done"
    data_commits,     \* self.data["commits"]: entries [key, val], in dict order
    pull_requests_to_other_repos, \* local dict: entries [key, val]
    duplicate_hashes_found,       \* local list of repo keys
    commits_to_other_repos_list,  \* local list of repo keys
    report_runs,      \* which generate_report call on this data is running
    \* ---- similarity search ----
    simPc,            \* "call" | "loop" | "returned" | "type_error" | "key_error"
    sim_commits,      \* the commits of the repository being processed
    sim_idx,          \* position of the for loop over commits
    search_requests,  \* the queries sent to /search/commits, in order
    filtered_commits, \* local filtered_commits
    \* ---- fetch_repository_commits: owned repositories ----
    clonePc,          \* "cloning" | "returned"
    REMOVE_REPO,      \* the configuration flag (config.py 127)
    has_token,        \* a token is configured (auth_url != clone_url)
    owned_repos,      \* owned_repos, each with the history upstream holds
    clone_results,    \* per repository <<>> or the returned triple
    clone_outcome,    \* per repository "pending" | "ok" | "enum_error" | "clone_failed"
    scratch_dirs,     \* names of the repositories whose repo_dir exists
    clone_commits_data, \* local commits_data
    failed_repos,     \* local failed_repos
    \* ---- process_target, run after run ----
    runPc,            \* "new_analyzer" | "run_analysis" | "generate_report"
    run_target,       \* the username
    upstream_owner,   \* the owner entries the unchanged upstream commits give
    analyzer_data,    \* self.data: key -> value, for the keys that matter
    report_file,      \* <<>> or <<report>>: the content of report.json
    reports_written,  \* every report persisted so far, in order
    \* ---- EmailCategorizer.categorize_emails ----
    emailPc,          \* "identify" | "returned"
    all_contributors, \* self.all_contributors
    categorized,      \* the three lists of the result, as sets of pairs
    \* ---- generate_report: the persisted report ----
    reportPc,         \* "generate_report" | "returned" | "raised"
    self_data,        \* self.data: key -> kind of value, for the assigned keys
    saved_report,     \* <<>> or <<report>>: what save_output was given
    \* ---- terminal: a batch of targets ----
    batchPc,          \* "loop" | "done" | "exited"
    targets,          \* the usernames read from the targets file
    regenerate,       \* args.regenerate
    commit_search,    \* args.commit_search given
    target_idx,       \* position of the for loop in targets
    report_files,     \* the report files on disk: path -> content
    outcomes,         \* how process_target ended for each target so far
    \* ---- _make_api_request (one call) ----
    mkPc,             \* "loop" | "returned" | "raised"
    attempt,          \* loop variable attempt
    mk_responses,     \* the answers of session.get so far (status 0: ClientError)
    mk_sleeps,        \* the arguments of the asyncio.sleep calls so far
    mk_result,        \* <<>> while nothing was returned, else <<value>>
    \* ---- run_concurrent / run_api_requests (one call) ----
    concPc,           \* "running" | "returned" | "processed" | "raised"
    conc_mode,        \* "threads": run_concurrent, "api": run_api_requests
    n_inputs,         \* len(items) / len(requests)
    conc_outcome,     \* input index -> "pending" | "ok" | "none" | "exc"
    conc_batch_start, \* first input of the batch that is running
    overtaken,        \* a worker ended before the worker of an earlier input
    comments_results, \* the list the executor returns
    cleaned_comments, \* fetch_user_issue_comments' result
    \* ---- save_output (one call) ----
    savePc,           \* "save_output" | "dumping" | "saved" | "failed" | "interrupted"
    previous_file,    \* the report file before the call
    file_on_disk,     \* the report file now
    new_document,     \* the serialization of the report being saved
    \* ---- terminal with --monitor ----
    monPc,            \* the stage of terminal, "done" or "crashed"
    arg_username,     \* args.username: <<>> or <<name>>
    arg_targets,      \* the targets read from args.targets, <<>> if not given
    arg_only_profile, \* args.only_profile
    mon_idx,          \* position of the for loop over the targets
    interrupts_caught,\* KeyboardInterrupts caught by monitor so far
    api_requests,     \* the users the API was asked about, in order
    \* ---- fetch_repository_commits: filling commits_data ----
    colPc,            \* "prs" | "search" | "clones" | "forks" | "returned"
    pr_results,       \* the pull requests found, each with its repository
    commit_results,   \* the hits of the commit search, each with its repository
    cloned_repos,     \* names of the owned repositories whose clone gave commits
    forked_repos,     \* names of the forks the API gave commits for
    col_commits_data, \* local commits_data: entries [key, val]
    fetched_commits   \* every commit record built so far

apiVars  == <<apiPc, retry_count, requests_issued, sleeps, api_result,
              last_response, last_sleep, only_rate_limited>>
pageVars == <<pgPc, upstream, limit, results, all_results, page_requests,
              batch_start, page_outcome, pg_return>>
catVars  == <<catPc, commits, commit_idx, owner_identities,
              owner_name_email_pairs, changed, passes, pass_added>>
dateVars == <<datePc, commits_data, account_created_at, repo_idx, date_filter>>
extVars  == <<extPc, data_commits, pull_requests_to_other_repos,
              duplicate_hashes_found, commits_to_other_repos_list, report_runs>>
simVars  == <<simPc, sim_commits, sim_idx, search_requests, filtered_commits>>
cloneVars == <<clonePc, REMOVE_REPO, has_token, owned_repos, clone_results,
               clone_outcome, scratch_dirs, clone_commits_data, failed_repos>>
runVars  == <<runPc, run_target, upstream_owner, analyzer_data, report_file,
              reports_written>>
emailVars == <<emailPc, all_contributors, categorized>>
reportVars == <<reportPc, self_data, saved_report>>
batchVars == <<batchPc, targets, regenerate, commit_search, target_idx,
               report_files, outcomes>>
makeVars == <<mkPc, attempt, mk_responses, mk_sleeps, mk_result>>
concVars == <<concPc, conc_mode, n_inputs, conc_outcome, conc_batch_start,
              overtaken, comments_results, cleaned_comments>>
saveVars == <<savePc, previous_file, file_on_disk, new_document>>
monitorVars == <<monPc, arg_username, arg_targets, arg_only_profile, mon_idx,
                 interrupts_caught, api_requests>>
collectVars == <<colPc, pr_results, commit_results, cloned_repos, forked_repos,
                 col_commits_data, fetched_commits>>
vars     == <<apiVars, pageVars, catVars, dateVars, extVars, simVars, cloneVars,
              runVars, emailVars, reportVars, batchVars, makeVars, concVars,
              saveVars, monitorVars, collectVars>>

\* what a component's step leaves alone: the other components
ApiFrame     == UNCHANGED <<pageVars, catVars, dateVars, extVars, simVars, cloneVars, runVars,
                          emailVars, reportVars, batchVars, makeVars, concVars, saveVars, monitorVars, collectVars>>
PageFrame    == UNCHANGED <<apiVars, catVars, dateVars, extVars, simVars, cloneVars, runVars,
                          emailVars, reportVars, batchVars, makeVars, concVars, saveVars, monitorVars, collectVars>>
CatFrame     == UNCHANGED <<apiVars, pageVars, dateVars, extVars, simVars, cloneVars, runVars,
                          emailVars, reportVars, batchVars, makeVars, concVars, saveVars, monitorVars, collectVars>>
DateFrame    == UNCHANGED <<apiVars, pageVars, catVars, extVars, simVars, cloneVars, runVars,
                          emailVars, reportVars, batchVars, makeVars, concVars, saveVars, monitorVars, collectVars>>
ExtFrame     == UNCHANGED <<apiVars, pageVars, catVars, dateVars, simVars, cloneVars, runVars,
                          emailVars, reportVars, batchVars, makeVars, concVars, saveVars, monitorVars, collectVars>>
SimFrame     == UNCHANGED <<apiVars, pageVars, catVars, dateVars, extVars, cloneVars, runVars,
                          emailVars, reportVars, batchVars, makeVars, concVars, saveVars, monitorVars, collectVars>>
CloneFrame   == UNCHANGED <<apiVars, pageVars, catVars, dateVars, extVars, simVars, runVars,
                          emailVars, reportVars, batchVars, makeVars, concVars, saveVars, monitorVars, collectVars>>
RunFrame     == UNCHANGED <<apiVars, pageVars, catVars, dateVars, extVars, simVars, cloneVars,
                          emailVars, reportVars, batchVars, makeVars, concVars, saveVars, monitorVars, collectVars>>
ReportFrame  == UNCHANGED <<apiVars, pageVars, catVars, dateVars, extVars, simVars, cloneVars,
                          runVars, emailVars, batchVars, makeVars, concVars, saveVars, monitorVars, collectVars>>
BatchFrame   == UNCHANGED <<apiVars, pageVars, catVars, dateVars, extVars, simVars, cloneVars,
                          runVars, emailVars, reportVars, makeVars, concVars, saveVars, monitorVars, collectVars>>
MakeFrame    == UNCHANGED <<apiVars, pageVars, catVars, dateVars, extVars, simVars, cloneVars,
                          runVars, emailVars, reportVars, batchVars, concVars, saveVars, monitorVars, collectVars>>
ConcFrame    == UNCHANGED <<apiVars, pageVars, catVars, dateVars, extVars, simVars, cloneVars,
                          runVars, emailVars, reportVars, batchVars, makeVars, saveVars, monitorVars, collectVars>>
SaveFrame    == UNCHANGED <<apiVars, pageVars, catVars, dateVars, extVars, simVars, cloneVars,
                          runVars, emailVars, reportVars, batchVars, makeVars, concVars, monitorVars, collectVars>>
MonitorFrame == UNCHANGED <<apiVars, pageVars, catVars, dateVars, extVars, simVars, cloneVars,
                          runVars, emailVars, reportVars, batchVars, makeVars, concVars, saveVars, collectVars>>
CollectFrame == UNCHANGED <<apiVars, pageVars, catVars, dateVars, extVars, simVars, cloneVars,
                          runVars, emailVars, reportVars, batchVars, makeVars, concVars, saveVars, monitorVars>>

(***************************************************************************)
(* Python string helpers                                                   *)
(***************************************************************************)
Max(a, b) == IF a >= b THEN a ELSE b
Min(a, b) == IF a <= b THEN a ELSE b

\* str.lower() on one character (the alphabet the model's inputs use)
LowerChar(c) ==
    CASE c = "A" -> "a" [] c = "B" -> "b" [] c = "C" -> "c" [] c = "D" -> "d"
      [] c = "E" -> "e" [] c = "G" -> "g" [] c = "H" -> "h" [] c = "X" -> "x"
      [] OTHER -> c

\* str.lower()
Lower(s) == [i \in 1..Len(s) |-> LowerChar(s[i])]

\* sub in s   (substring test)
StrIn(sub, s) ==
    \E k \in 0..(Len(s) - Len(sub)) :
        \A i \in 1..Len(sub) : s[k + i] = sub[i]

Digits == {"0", "1", "2", "3", "4", "5", "6", "7", "8", "9"}

DigitVal(c) ==
    CASE c = "0" -> 0 [] c = "1" -> 1 [] c = "2" -> 2 [] c = "3" -> 3
      [] c = "4" -> 4 [] c = "5" -> 5 [] c = "6" -> 6 [] c = "7" -> 7
      [] c = "8" -> 8 [] c = "9" -> 9

RECURSIVE DigitsVal(_)
DigitsVal(s) ==
    IF Len(s) = 0 THEN 0
    ELSE 10 * DigitsVal(SubSeq(s, 1, Len(s) - 1)) + DigitVal(s[Len(s)])

AllDigits(s) == Len(s) > 0 /\ \A i \in 1..Len(s) : s[i] \in Digits

\* int(s): [ok |-> TRUE, val |-> n], or ok = FALSE where Python raises ValueError
PyInt(s) ==
    IF AllDigits(s) THEN [ok |-> TRUE, val |-> DigitsVal(s)]
    ELSE IF Len(s) > 1 /\ s[1] = "-" /\ AllDigits(Tail(s))
         THEN [ok |-> TRUE, val |-> 0 - DigitsVal(Tail(s))]
    ELSE IF Len(s) > 1 /\ s[1] = "+" /\ AllDigits(Tail(s))
         THEN [ok |-> TRUE, val |-> DigitsVal(Tail(s))]
    ELSE [ok |-> FALSE, val |-> 0]

(***************************************************************************)
(* github_api_request and _handle_rate_limit                               *)
(***************************************************************************)
RETRY_LIMIT == 10

H_RetryAfter == "Retry-After"
H_Remaining  == "X-RateLimit-Remaining"
H_Reset      == "X-RateLimit-Reset"
H_Resource   == "X-RateLimit-Resource"
HeaderNames  == {H_RetryAfter, H_Remaining, H_Reset, H_Resource}

S_search == <<"s", "e", "a", "r", "c", "h">>
S_code_search == <<"c", "o", "d", "e", "_", "s", "e", "a", "r", "c", "h">>
S_zero   == <<"0">>

\* The header values a server response may carry; <<>> stands for "header absent",
\* <<v>> for "header present with value v".
HeaderOptions(n) ==
    CASE n = H_RetryAfter ->
            {<<>>, <<S_zero>>, <<<<"7">>>>, <<<<"-", "3">>>>, <<<<"W", "e", "d">>>>}
      [] n = H_Remaining ->
            {<<>>, <<S_zero>>, <<<<"5">>>>}
      [] n = H_Reset ->
            {<<>>, <<<<"9", "5">>>>, <<<<"7">>>>, <<<<"x">>>>}
      [] n = H_Resource ->
            {<<>>, <<S_search>>, <<S_code_search>>}

\* A headers mapping built from one option per header name
MkHeaders(opt) ==
    [n \in {m \in HeaderNames : opt[m] # <<>>} |-> opt[n][1]]

HeaderSets ==
    { MkHeaders(opt) :
        opt \in { o \in [HeaderNames -> UNION {HeaderOptions(n) : n \in HeaderNames}] :
                    \A n \in HeaderNames : o[n] \in HeaderOptions(n) } }

\* The headers of the responses whose headers the code never reads (every
\* status but 403 and 429)
PlainHeaderSets ==
    { h \in HeaderSets : H_RetryAfter \notin DOMAIN h /\ H_Reset \notin DOMAIN h }

\* int(time.time()) as read by _handle_rate_limit
NowValues == {50}

\* headers.get(name, default)
HGet(headers, name, default) ==
    IF name \in DOMAIN headers THEN headers[name] ELSE default

NoValue == <<"None">>

\* Mutant of HandleRateLimit: the X-RateLimit headers are looked at before
\* Retry-After (the order of the older revisions of this function)
HandleRateLimit_PrimaryFirst(headers, now) ==
    IF /\ HGet(headers, H_Remaining, NoValue) = S_zero
       /\ H_Reset \in DOMAIN headers
       /\ PyInt(headers[H_Reset]).ok
    THEN [raised |-> FALSE,
          wait |-> Max(IF HGet(headers, H_Resource, NoValue) = S_search THEN 30 ELSE 1,
                       PyInt(headers[H_Reset]).val - now)]
    ELSE IF H_RetryAfter \in DOMAIN headers
    THEN [raised |-> ~PyInt(headers[H_RetryAfter]).ok,
          wait |-> PyInt(headers[H_RetryAfter]).val]
    ELSE [raised |-> FALSE, wait |-> 1]

\* _handle_rate_limit(headers), reading the clock as `now`:
\* [raised |-> TRUE] where the ValueError of int() leaves the function,
\* else [raised |-> FALSE, wait |-> the returned wait_time]
HandleRateLimit(headers, now) ==
    IF H_RetryAfter \in DOMAIN headers
    THEN \* lines 85-88: int() is outside the try block
         LET ra == PyInt(headers[H_RetryAfter]) IN
         IF ra.ok THEN [raised |-> FALSE, wait |-> ra.val]
                  ELSE [raised |-> TRUE, wait |-> 0]
    ELSE
    LET resource == HGet(headers, H_Resource, NoValue)
        \* lines 118-125: the fallback after the try block
        fallback == IF StrIn(S_search, HGet(headers, H_Resource, <<>>))
                    THEN [raised |-> FALSE, wait |-> 2]
                    ELSE [raised |-> FALSE, wait |-> 1]
    IN
    IF HGet(headers, H_Remaining, NoValue) = S_zero /\ H_Reset \in DOMAIN headers
    THEN LET rt == PyInt(headers[H_Reset]) IN
         IF ~rt.ok THEN fallback      \* ValueError caught at line 115
         ELSE IF resource = S_search
              THEN [raised |-> FALSE, wait |-> Max(30, rt.val - now)]
              ELSE [raised |-> FALSE, wait |-> Max(1, rt.val - now)]
    ELSE IF resource = S_search
         THEN [raised |-> FALSE, wait |-> 30]
         ELSE fallback

Statuses == {200, 304, 401, 403, 429, 404, 500}
RateLimitStatuses == {403, 429}

\* response bodies: a JSON document, or text that response.json() cannot decode
Bodies == {"json", "not_json"}

NoneNone == <<"None", "None">>
\* kind: "none" before the first request, "http" for a response with a status,
\* "exception" when session.get raised requests.exceptions.RequestException
NoResponse == [kind |-> "none", status |-> 0, headers |-> <<>>, now |-> 0]

InitApi ==
    /\ apiPc = "loop"
    /\ retry_count = 0
    /\ requests_issued = 0
    /\ sleeps = 0
    /\ api_result = <<>>
    /\ last_response = NoResponse
    /\ last_sleep = <<>>
    /\ only_rate_limited = TRUE

\* the loop condition of line 43 holds and session.get is called
CanRequest == apiPc = "loop" /\ retry_count < RETRY_LIMIT

Got(status, headers, now) ==
    /\ requests_issued' = requests_issued + 1
    /\ last_response' = [kind |-> "http", status |-> status, headers |-> headers,
                          now |-> now]
    /\ only_rate_limited' = (only_rate_limited /\ status \in RateLimitStatuses)

\* lines 49-50
Respond304 ==
    /\ CanRequest
    /\ \E h \in PlainHeaderSets :
          /\ Got(304, h, 0)
          /\ api_result' = <<"None", h>>
    /\ apiPc' = "returned"
    /\ last_sleep' = <<>>
    /\ UNCHANGED <<retry_count, sleeps>>
    /\ ApiFrame

\* lines 51-52; a body response.json() cannot decode raises
\* requests.exceptions.JSONDecodeError, a RequestException: lines 68-70
Respond200 ==
    /\ CanRequest
    /\ \E h \in PlainHeaderSets, b \in Bodies :
          /\ Got(200, h, 0)
          /\ api_result' = IF b = "json" THEN <<"json", h>> ELSE NoneNone
    /\ apiPc' = "returned"
    /\ last_sleep' = <<>>
    /\ UNCHANGED <<retry_count, sleeps>>
    /\ ApiFrame

\* Mutant of Respond401: a 401 is retried like a rate-limited response
Respond401_Retried ==
    /\ CanRequest
    /\ \E h \in PlainHeaderSets : Got(401, h, 0)
    /\ retry_count' = retry_count + 1
    /\ sleeps' = sleeps + 1
    /\ last_sleep' = <<1>>
    /\ UNCHANGED <<apiPc, api_result>>
    /\ ApiFrame

\* lines 53-55: exit(1)
Respond401 ==
    /\ CanRequest
    /\ \E h \in PlainHeaderSets : Got(401, h, 0)
    /\ apiPc' = "exited"
    /\ last_sleep' = <<>>
    /\ UNCHANGED <<retry_count, sleeps, api_result>>
    /\ ApiFrame

\* lines 56-63: retry_count += 1, wait_time = _handle_rate_limit, time.sleep, continue.
\* time.sleep raises ValueError for a negative argument; a ValueError is not
\* a RequestException, so it leaves github_api_request.
RespondRateLimit ==
    /\ CanRequest
    /\ \E st \in RateLimitStatuses, h \in HeaderSets, now \in NowValues :
          LET r == HandleRateLimit(h, now) IN
          /\ Got(st, h, now)
          /\ retry_count' = retry_count + 1
          /\ IF r.raised \/ r.wait < 0
             THEN /\ apiPc' = "raised"
                  /\ last_sleep' = <<>>
                  /\ sleeps' = sleeps
             ELSE /\ apiPc' = "loop"
                  /\ last_sleep' = <<r.wait>>
                  /\ sleeps' = sleeps + 1
    /\ UNCHANGED api_result
    /\ ApiFrame

\* Mutant of RespondOther: a failure status is retried after a second
RespondOther_Retried ==
    /\ CanRequest
    /\ \E st \in Statuses \ ({200, 304, 401} \cup RateLimitStatuses), h \in PlainHeaderSets :
          Got(st, h, 0)
    /\ retry_count' = retry_count + 1
    /\ sleeps' = sleeps + 1
    /\ last_sleep' = <<1>>
    /\ UNCHANGED <<apiPc, api_result>>
    /\ ApiFrame

\* lines 64-66
RespondOther ==
    /\ CanRequest
    /\ \E st \in Statuses \ ({200, 304, 401} \cup RateLimitStatuses), h \in PlainHeaderSets :
          Got(st, h, 0)
    /\ api_result' = NoneNone
    /\ apiPc' = "returned"
    /\ last_sleep' = <<>>
    /\ UNCHANGED <<retry_count, sleeps>>
    /\ ApiFrame

\* lines 68-70: session.get raised a RequestException
RequestException ==
    /\ CanRequest
    /\ requests_issued' = requests_issued + 1
    /\ last_response' = [kind |-> "exception", status |-> 0, headers |-> <<>>,
                          now |-> 0]
    /\ only_rate_limited' = FALSE
    /\ api_result' = NoneNone
    /\ apiPc' = "returned"
    /\ last_sleep' = <<>>
    /\ UNCHANGED <<retry_count, sleeps>>
    /\ ApiFrame

\* lines 72-73: the while condition fails
RetryLimitExceeded ==
    /\ apiPc = "loop"
    /\ ~(retry_count < RETRY_LIMIT)
    /\ api_result' = NoneNone
    /\ apiPc' = "returned"
    /\ UNCHANGED <<retry_count, requests_issued, sleeps, last_response,
                   last_sleep, only_rate_limited>>
    /\ ApiFrame

NextApi ==
    \/ Respond304
    \/ Respond200
    \/ Respond401
    \/ RespondRateLimit
    \/ RespondOther
    \/ RequestException
    \/ RetryLimitExceeded

(***************************************************************************)
(* fetch_all_pages                                                         *)
(***************************************************************************)
MAX_CONCURRENT_REQUESTS == 5

\* The model's per_page (ITEMS_PER_PAGE, scaled down) and the most items the
\* provider holds
PerPage  == 2
MaxItems == 13

\* seq[:k]
Take(seq, k) == SubSeq(seq, 1, Min(k, Len(seq)))

\* Python truthiness of the limit argument: None and 0 are falsy
LimitTruthy(lim) == lim # <<>> /\ lim[1] # 0

\* results[:limit] if limit else results   (line 197)
CapToLimit(seq, lim) == IF LimitTruthy(lim) THEN Take(seq, lim[1]) ELSE seq

\* The provider: page p of the listing, per_page items a page
PageItems(up, p) ==
    SubSeq(up.items, (p - 1) * PerPage + 1, Min(p * PerPage, Len(up.items)))

\* the page number of rel="last"; the provider sends a Link header only when
\* the listing has more than one page
LastPage(up) == (Len(up.items) + PerPage - 1) \div PerPage
HasLink(up)  == LastPage(up) > 1

\* Truthiness of a decoded page body: an empty list is falsy, a search-shaped
\* object {"items": [...]} is a non-empty dict and truthy
BodyTruthy(up, p) == up.shape = "items" \/ Len(PageItems(up, p)) > 0

\* lines 180-189, for the pages `pages` of one batch in order, each with its
\* outcome out[p] as run_api_requests returned it: the decoded body ("ok"),
\* None ("fail") or an exception object kept by gather(return_exceptions=True)
\* ("exc": truthy, not iterable, so all_results.extend raises TypeError)
RECURSIVE ProcessBatch(_, _, _, _, _, _)
ProcessBatch(up, lim, res, all, pages, out) ==
    IF pages = <<>> THEN [state |-> "continue", all |-> all, ret |-> <<>>]
    ELSE
    LET p == Head(pages) IN
    IF out[p] = "exc" THEN [state |-> "raise", all |-> all, ret |-> <<>>]
    ELSE IF out[p] = "ok" /\ BodyTruthy(up, p)
    THEN LET all2 == all \o PageItems(up, p) IN
         IF LimitTruthy(lim) /\ Len(res) + Len(all2) >= lim[1]
         THEN [state |-> "return", all |-> all2, ret |-> Take(res \o all2, lim[1])]
         ELSE ProcessBatch(up, lim, res, all2, Tail(pages), out)
    ELSE ProcessBatch(up, lim, res, all, Tail(pages), out)

Shapes == {"array", "items"}
Items(n) == [i \in 1..n |-> i]
Limits == {<<>>} \cup {<<k>> : k \in 0..(MaxItems + 1)}

InitPages ==
    /\ pgPc = "start"
    /\ upstream \in [items : {Items(n) : n \in 0..MaxItems}, shape : Shapes]
    /\ limit \in Limits
    /\ results = <<>>
    /\ all_results = <<>>
    /\ page_requests = <<>>
    /\ batch_start = 0
    /\ page_outcome = [p \in 1..LastPage(upstream) |-> "unfetched"]
    /\ pg_return = <<>>

\* lines 130-136, the first page could not be fetched: github_api_request
\* returned (None, None) or (None, headers)
FirstPageFails ==
    /\ pgPc = "start"
    /\ page_outcome' = [p \in DOMAIN page_outcome \cup {1} |->
                           IF p = 1 THEN "fail" ELSE page_outcome[p]]
    /\ pg_return' = <<>>
    /\ pgPc' = "returned"
    /\ UNCHANGED <<upstream, limit, results, all_results, page_requests, batch_start>>
    /\ PageFrame

\* lines 130-166 and 195-197 when there is a single page
FirstPage ==
    /\ pgPc = "start"
    /\ page_outcome' = [p \in DOMAIN page_outcome \cup {1} |->
                           IF p = 1 THEN "ok" ELSE page_outcome[p]]
    /\ IF ~BodyTruthy(upstream, 1)
       THEN /\ pg_return' = <<>>
            /\ pgPc' = "returned"
            /\ UNCHANGED <<results, page_requests>>
       ELSE LET first == PageItems(upstream, 1)
                total_pages == IF HasLink(upstream) THEN LastPage(upstream) ELSE 1
            IN
            /\ results' = first
            /\ IF LimitTruthy(limit) /\ Len(first) >= limit[1]
               THEN /\ pg_return' = Take(first, limit[1])
                    /\ pgPc' = "returned"
                    /\ UNCHANGED page_requests
               ELSE IF total_pages > 1
               THEN /\ page_requests' = [j \in 1..(total_pages - 1) |-> j + 1]
                    /\ pgPc' = "batches"
                    /\ UNCHANGED pg_return
               ELSE /\ pg_return' = CapToLimit(first, limit)
                    /\ pgPc' = "returned"
                    /\ UNCHANGED page_requests
    /\ UNCHANGED <<upstream, limit, all_results, batch_start>>
    /\ PageFrame

\* lines 170-193: one iteration of the batch loop
FetchBatch ==
    /\ pgPc = "batches"
    /\ batch_start < Len(page_requests)
    /\ LET batch == SubSeq(page_requests, batch_start + 1,
                           Min(batch_start + MAX_CONCURRENT_REQUESTS, Len(page_requests)))
           pagesOf == {batch[j] : j \in 1..Len(batch)}
       IN
       \E out \in [pagesOf -> {"ok", "fail", "exc"}] :
          LET r == ProcessBatch(upstream, limit, results, all_results, batch, out) IN
          /\ page_outcome' = [p \in DOMAIN page_outcome |->
                                 IF p \in pagesOf THEN out[p] ELSE page_outcome[p]]
          /\ all_results' = r.all
          /\ IF r.state = "raise"
             THEN /\ pgPc' = "raised"
                  /\ UNCHANGED <<results, pg_return, batch_start>>
             ELSE IF r.state = "return"
             THEN /\ pgPc' = "returned"
                  /\ results' = results \o r.all
                  /\ pg_return' = r.ret
                  /\ UNCHANGED batch_start
             ELSE /\ batch_start' = batch_start + MAX_CONCURRENT_REQUESTS
                  /\ UNCHANGED <<pgPc, results, pg_return>>
    /\ UNCHANGED <<upstream, limit, page_requests>>
    /\ PageFrame

\* lines 195-197: the batch loop is over
ReturnAll ==
    /\ pgPc = "batches"
    /\ ~(batch_start < Len(page_requests))
    /\ results' = results \o all_results
    /\ pg_return' = CapToLimit(results \o all_results, limit)
    /\ pgPc' = "returned"
    /\ UNCHANGED <<upstream, limit, all_results, page_requests, batch_start, page_outcome>>
    /\ PageFrame

NextPages ==
    \/ FirstPageFails
    \/ FirstPage
    \/ FetchBatch
    \/ ReturnAll

(***************************************************************************)
(* EmailCategorizer._identify_owner_details                                *)
(***************************************************************************)
\* EmailCategorizer.__init__: self.username = username.lower()
UsernameArg == <<"X">>
username == Lower(UsernameArg)

N_x == <<"x">>
N_B == <<"B">>
N_b == <<"b">>
E_own == <<"X", "@", "h">>
E_e1 == <<"e", "1">>
E_E1 == <<"E", "1">>
E_e2 == <<"e", "2">>
N_GitHub == <<"G", "i", "t", "H", "u", "b">>
E_noreply == <<"n", "o", "r", "e", "p", "l", "y", "@", "g", "i", "t", "h", "u", "b",
               ".", "c", "o", "m">>

AuthorNames  == {N_x, N_B, N_b}
AuthorEmails == {E_own, E_e1, E_E1}
CommitterPairs == {<<N_GitHub, E_noreply>>, <<N_B, E_e2>>}

CommitPool ==
    { [author_name |-> an, author_email |-> ae,
       committer_name |-> cp[1], committer_email |-> cp[2]] :
         an \in AuthorNames, ae \in AuthorEmails, cp \in CommitterPairs }

MaxCommits == 2

CommitLists == UNION { [1..n -> CommitPool] : n \in 0..MaxCommits }

InitCat ==
    /\ catPc = "seed"
    /\ commits \in CommitLists
    /\ commit_idx = 1
    /\ owner_identities = {username}
    /\ owner_name_email_pairs = {}
    /\ changed = FALSE
    /\ passes = 0
    /\ pass_added = {}

\* lines 82-96: one iteration of the first for loop
SeedCommit ==
    /\ catPc = "seed"
    /\ commit_idx <= Len(commits)
    /\ LET c == commits[commit_idx]
           a == StrIn(username, Lower(c.author_email))
           k == StrIn(username, Lower(c.committer_email))
       IN
       /\ owner_name_email_pairs' = owner_name_email_pairs
             \cup (IF a THEN {<<c.author_name, c.author_email>>} ELSE {})
             \cup (IF k THEN {<<c.committer_name, c.committer_email>>} ELSE {})
       /\ owner_identities' = owner_identities
             \cup (IF a THEN {Lower(c.author_name)} ELSE {})
             \cup (IF k THEN {Lower(c.committer_name)} ELSE {})
    /\ commit_idx' = commit_idx + 1
    /\ UNCHANGED <<catPc, commits, changed, passes, pass_added>>
    /\ CatFrame

\* line 99: changed = True, after the first for loop
SeedDone ==
    /\ catPc = "seed"
    /\ commit_idx > Len(commits)
    /\ changed' = TRUE
    /\ catPc' = "while"
    /\ UNCHANGED <<commits, commit_idx, owner_identities, owner_name_email_pairs,
                   passes, pass_added>>
    /\ CatFrame

\* lines 100-101: the while test; a pass starts with changed = False
WhileTest ==
    /\ catPc = "while"
    /\ IF changed
       THEN /\ changed' = FALSE
            /\ commit_idx' = 1
            /\ pass_added' = {}
            /\ catPc' = "closure"
       ELSE /\ catPc' = "done"
            /\ UNCHANGED <<changed, commit_idx, pass_added>>
    /\ UNCHANGED <<commits, owner_identities, owner_name_email_pairs, passes>>
    /\ CatFrame

\* Mutant of ClosureCommit: changed is set whenever a name is a known owner
\* identity, whether or not its pair is new
ClosureCommit_AlwaysChanged ==
    /\ catPc = "closure"
    /\ commit_idx <= Len(commits)
    /\ LET c == commits[commit_idx]
           addA == IF Lower(c.author_name) \in owner_identities
                   THEN {<<c.author_name, c.author_email>>} ELSE {}
           addC == IF Lower(c.committer_name) \in owner_identities
                   THEN {<<c.committer_name, c.committer_email>>} ELSE {}
           pairs2 == owner_name_email_pairs \cup addA \cup addC
           known == {Lower(q[2]) : q \in pairs2}
       IN
       /\ owner_name_email_pairs' = pairs2
       /\ changed' = (changed \/ addA \cup addC # {})
       /\ pass_added' = pass_added \cup (pairs2 \ owner_name_email_pairs)
       /\ owner_identities' = owner_identities
             \cup (IF Lower(c.author_email) \in known
                   THEN {Lower(c.author_name)} ELSE {})
             \cup (IF Lower(c.committer_email) \in known
                   THEN {Lower(c.committer_name)} ELSE {})
    /\ commit_idx' = commit_idx + 1
    /\ UNCHANGED <<catPc, commits, passes>>
    /\ CatFrame

\* lines 102-124: one iteration of the for loop inside the while loop
ClosureCommit ==
    /\ catPc = "closure"
    /\ commit_idx <= Len(commits)
    /\ LET c == commits[commit_idx]
           addA == IF Lower(c.author_name) \in owner_identities
                   THEN {<<c.author_name, c.author_email>>} ELSE {}
           addC == IF Lower(c.committer_name) \in owner_identities
                   THEN {<<c.committer_name, c.committer_email>>} ELSE {}
           pairs2 == owner_name_email_pairs \cup addA \cup addC
           known == {Lower(q[2]) : q \in pairs2}
       IN
       /\ owner_name_email_pairs' = pairs2
       /\ changed' = (changed \/ pairs2 # owner_name_email_pairs)
       /\ pass_added' = pass_added \cup (pairs2 \ owner_name_email_pairs)
       /\ owner_identities' = owner_identities
             \cup (IF Lower(c.author_email) \in known
                   THEN {Lower(c.author_name)} ELSE {})
             \cup (IF Lower(c.committer_email) \in known
                   THEN {Lower(c.committer_name)} ELSE {})
    /\ commit_idx' = commit_idx + 1
    /\ UNCHANGED <<catPc, commits, passes>>
    /\ CatFrame

\* the for loop of a pass is over: back to the while test
PassDone ==
    /\ catPc = "closure"
    /\ commit_idx > Len(commits)
    /\ passes' = passes + 1
    /\ catPc' = "while"
    /\ UNCHANGED <<commits, commit_idx, owner_identities, owner_name_email_pairs,
                   changed, pass_added>>
    /\ CatFrame

NextCat ==
    \/ SeedCommit
    \/ SeedDone
    \/ WhileTest
    \/ ClosureCommit
    \/ PassDone

(***************************************************************************)
(* GitHubDataFilter.filter_by_creation_date                                *)
(***************************************************************************)
\* An ISO-8601 timestamp is modelled by the two fields it carries: the local
\* clock reading (in ticks of one microsecond) and the UTC offset (same unit).
\* parser.parse yields an aware datetime; aware datetimes compare by instant.
ParseInstant(d) == d.tick - d.off

\* first_commit_date < account_date   (line 37)
Predates(commit_date, account_date) ==
    ParseInstant(commit_date) < ParseInstant(account_date)

\* GitCommit.to_dict: the record every history of commits_data is made of
\* (github.py 26-37, appended at github.py 119-121); the author date is the
\* flat key "date"
ToDict(d) == [date |-> d]

\* the record of the GitHub REST API, the shape filter.py indexes
ApiCommit(d) == [commit |-> [author |-> [date |-> d]]]

\* dict[key]: a missing key is a KeyError
HasKey(rec, key) == key \in DOMAIN rec

\* commits[-1]   (line 35)
LastCommit(history) == history[Len(history)]

\* commits[-1]["commit"]["author"]["date"]   (lines 34-36)
FirstCommitDate(history) == LastCommit(history).commit.author.date

DateValues == { [tick |-> 9, off |-> 0], [tick |-> 10, off |-> 0],
                [tick |-> 12, off |-> 1] }
CreatedValues == { [tick |-> 10, off |-> 0], [tick |-> 11, off |-> 1] }

MaxRepos   == 2
MaxHistory == 2

\* the histories of one run are all built by the same producer
CommitRecords(shape) ==
    IF shape = "to_dict" THEN { ToDict(d) : d \in DateValues }
                         ELSE { ApiCommit(d) : d \in DateValues }

Histories(shape) == UNION { [1..n -> CommitRecords(shape)] : n \in 0..MaxHistory }

CommitShapes == {"to_dict", "api"}

InitDate ==
    /\ datePc = "loop"
    /\ \E shape \in CommitShapes :
          commits_data \in UNION { [1..n -> Histories(shape)] : n \in 0..MaxRepos }
    /\ account_created_at \in CreatedValues
    /\ repo_idx = 1
    /\ date_filter = <<>>

\* lines 32-42: one iteration of the for loop over commits_data.items()
FilterRepo ==
    /\ datePc = "loop"
    /\ repo_idx <= Len(commits_data)
    /\ LET history == commits_data[repo_idx] IN
       /\ Len(history) > 0 => HasKey(LastCommit(history), "commit")
       /\ date_filter' =
             IF Len(history) > 0 /\ Predates(FirstCommitDate(history), account_created_at)
             THEN Append(date_filter, [repo |-> repo_idx,
                                       commit_date |-> FirstCommitDate(history)])
             ELSE date_filter
    /\ repo_idx' = repo_idx + 1
    /\ UNCHANGED <<datePc, commits_data, account_created_at>>
    /\ DateFrame

\* lines 33-36: the history is not empty and its last record has no "commit"
\* key; the subscript raises KeyError, which nothing in the function catches
FilterKeyError ==
    /\ datePc = "loop"
    /\ repo_idx <= Len(commits_data)
    /\ LET history == commits_data[repo_idx] IN
       /\ Len(history) > 0
       /\ ~HasKey(LastCommit(history), "commit")
    /\ datePc' = "raised"
    /\ UNCHANGED <<commits_data, account_created_at, repo_idx, date_filter>>
    /\ DateFrame

\* line 44
FilterReturn ==
    /\ datePc = "loop"
    /\ repo_idx > Len(commits_data)
    /\ datePc' = "returned"
    /\ UNCHANGED <<commits_data, account_created_at, repo_idx, date_filter>>
    /\ DateFrame

NextDate ==
    \/ FilterRepo
    \/ FilterKeyError
    \/ FilterReturn

(***************************************************************************)
(* GitHubProfileAnalyzer.generate_report: external contributions           *)
(* (modules/analyze.py 412-499)                                            *)
(***************************************************************************)
\* A dict is a sequence of [key, val] entries with distinct keys, in
\* insertion order.
DictKeys(d) == {d[i].key : i \in 1..Len(d)}

\* d.get(k, [])
DictGet(d, k) ==
    IF k \in DictKeys(d)
    THEN d[CHOOSE i \in 1..Len(d) : d[i].key = k].val
    ELSE <<>>

\* d[k] = v   (an existing key keeps its position)
DictPut(d, k, v) ==
    IF k \in DictKeys(d)
    THEN [i \in 1..Len(d) |-> IF d[i].key = k THEN [key |-> k, val |-> v] ELSE d[i]]
    ELSE Append(d, [key |-> k, val |-> v])

\* "/" in key
HasSlash(key) == \E i \in 1..Len(key) : key[i] = "/"

\* key.split("/")[0]
SplitFirst(key) ==
    IF HasSlash(key)
    THEN SubSeq(key, 1, (CHOOSE i \in 1..Len(key) :
                            key[i] = "/" /\ \A j \in 1..(i - 1) : key[j] # "/") - 1)
    ELSE key

\* f"{inferred_owner}/{key}"
OwnerSlashRepo(owner, key) == owner \o <<"/">> \o key

\* "/" in rk and rk.split("/")[0].lower() != self.username.lower()
IsExternalKey(key) ==
    HasSlash(key) /\ Lower(SplitFirst(key)) # Lower(UsernameArg)

\* {c.get("sha") for c in clist if c.get("sha")}
ShaSet(clist) == {clist[i].sha : i \in {j \in 1..Len(clist) : clist[j].sha # ""}}

\* lines 424-431: the pull-request numbers of one commit list, first
\* occurrence order, starting from the list prs
RECURSIVE CollectPrs(_, _)
CollectPrs(clist, prs) ==
    IF clist = <<>> THEN prs
    ELSE LET pr == Head(clist).pull_request IN
         CollectPrs(Tail(clist),
                    IF pr # "" /\ \A i \in 1..Len(prs) : prs[i] # pr
                    THEN Append(prs, pr) ELSE prs)

\* lines 416-431: pull_requests_to_other_repos from the keys of data["commits"]
RECURSIVE BuildPrMap(_, _)
BuildPrMap(items, acc) ==
    IF items = <<>> THEN acc
    ELSE LET e == Head(items)
             prs == CollectPrs(e.val, DictGet(acc, e.key)) IN
         BuildPrMap(Tail(items),
                    IF e.val = <<>> \/ ~IsExternalKey(e.key) \/ prs = <<>>
                    THEN acc
                    ELSE DictPut(acc, e.key, prs))

\* lines 443-448: the owner of the first commit that names one, else <<>>
RECURSIVE InferredOwner(_)
InferredOwner(clist) ==
    IF clist = <<>> THEN <<>>
    ELSE IF Head(clist).owner # <<>> THEN Head(clist).owner
    ELSE InferredOwner(Tail(clist))

\* lines 439-453
NewKey(key, clist) ==
    IF HasSlash(key) THEN key
    ELSE LET inferred_owner == InferredOwner(clist) IN
         IF inferred_owner # <<>> /\ Lower(inferred_owner) # Lower(UsernameArg)
         THEN OwnerSlashRepo(inferred_owner, key)
         ELSE key

\* lines 456-465: append the commits whose SHA is not yet under the key
RECURSIVE MergeBySha(_, _)
MergeBySha(out_list, clist) ==
    IF clist = <<>> THEN out_list
    ELSE LET c == Head(clist) IN
         MergeBySha(IF c.sha = "" \/ c.sha \in ShaSet(out_list)
                    THEN out_list ELSE Append(out_list, c),
                    Tail(clist))

\* lines 433-465: normalized_commits
RECURSIVE NormalizeCommits(_, _)
NormalizeCommits(items, acc) ==
    IF items = <<>> THEN acc
    ELSE LET e == Head(items)
             new_key == NewKey(e.key, e.val) IN
         NormalizeCommits(Tail(items),
                          IF e.val = <<>> THEN acc
                          ELSE DictPut(acc, new_key,
                                       MergeBySha(DictGet(acc, new_key), e.val)))

\* lines 470-473
CandidateExternalKeys(d) ==
    SelectSeq([i \in 1..Len(d) |-> d[i].key], IsExternalKey)

\* Mutant of AllShasOwned: one shared SHA is enough
AllShasOwned_Any(shas, own_commit_shas) == shas \cap own_commit_shas # {}

\* all(sha in own_commit_shas for sha in shas)   (line 495)
AllShasOwned(shas, own_commit_shas) == shas \subseteq own_commit_shas

\* lines 480-487
OwnCommitShas(d) ==
    UNION { ShaSet(d[i].val) : i \in {j \in 1..Len(d) : ~HasSlash(d[j].key)} }

\* the inputs: what fetch_repository_commits stores in data["commits"]
\* (bare repository names; every commit of a key carries the key's owner)
RepoNames == {<<"r">>, <<"s">>}
RepoOwners == {<<"X">>, <<"x">>, <<"A">>}
ShaValues == {"", "s1", "s2"}
PrValues == {"", "7"}
MaxRepoCommits == 2
MaxKeys == 2
MaxReportRuns == 2

CommitsOf(owner) ==
    UNION { [1..n -> [sha : ShaValues, owner : {owner}, pull_request : PrValues]] :
            n \in 0..MaxRepoCommits }

FreshEntries(k) ==
    { [key |-> k, val |-> cl] : cl \in UNION { CommitsOf(o) : o \in RepoOwners } }

FreshCommitMaps ==
    { d \in UNION { [1..n -> UNION { FreshEntries(k) : k \in RepoNames }] :
                    n \in 0..MaxKeys } :
        \A i, j \in 1..Len(d) : i # j => d[i].key # d[j].key }

InitExt ==
    /\ extPc = "prs"
    /\ data_commits \in FreshCommitMaps
    /\ pull_requests_to_other_repos = <<>>
    /\ duplicate_hashes_found = <<>>
    /\ commits_to_other_repos_list = <<>>
    /\ report_runs = 1

\* lines 414-431
BuildPrMapping ==
    /\ extPc = "prs"
    /\ pull_requests_to_other_repos' = BuildPrMap(data_commits, <<>>)
    /\ duplicate_hashes_found' = <<>>
    /\ commits_to_other_repos_list' = <<>>
    /\ extPc' = "normalize"
    /\ UNCHANGED <<data_commits, report_runs>>
    /\ ExtFrame

\* lines 433-467
NormalizeKeys ==
    /\ extPc = "normalize"
    /\ data_commits' = NormalizeCommits(data_commits, <<>>)
    /\ extPc' = "classify"
    /\ UNCHANGED <<pull_requests_to_other_repos, duplicate_hashes_found,
                   commits_to_other_repos_list, report_runs>>
    /\ ExtFrame

\* lines 469-499
ClassifyExternal ==
    /\ extPc = "classify"
    /\ LET commits_to_other_repos_keys ==
               SelectSeq(CandidateExternalKeys(data_commits),
                         LAMBDA rk : rk \notin DictKeys(pull_requests_to_other_repos))
           own_commit_shas == OwnCommitShas(data_commits)
           IsDuplicate(rk) ==
               /\ ShaSet(DictGet(data_commits, rk)) # {}
               /\ AllShasOwned(ShaSet(DictGet(data_commits, rk)), own_commit_shas)
           IsOther(rk) ==
               /\ ShaSet(DictGet(data_commits, rk)) # {}
               /\ ~AllShasOwned(ShaSet(DictGet(data_commits, rk)), own_commit_shas)
       IN /\ duplicate_hashes_found' = SelectSeq(commits_to_other_repos_keys, IsDuplicate)
          /\ commits_to_other_repos_list' = SelectSeq(commits_to_other_repos_keys, IsOther)
    /\ extPc' = "done"
    /\ UNCHANGED <<data_commits, pull_requests_to_other_repos, report_runs>>
    /\ ExtFrame

\* process_target(regenerate=True): a new analyzer loads the persisted report,
\* whose "commits" are the normalized ones, and calls generate_report again
RegenerateReport ==
    /\ extPc = "done"
    /\ report_runs < MaxReportRuns
    /\ report_runs' = report_runs + 1
    /\ extPc' = "prs"
    /\ UNCHANGED <<data_commits, pull_requests_to_other_repos,
                   duplicate_hashes_found, commits_to_other_repos_list>>
    /\ ExtFrame

NextExt ==
    \/ BuildPrMapping
    \/ NormalizeKeys
    \/ ClassifyExternal
    \/ RegenerateReport

(***************************************************************************)
(* GitHubDataFilter: similarity search (modules/filter.py 46-158) and its  *)
(* caller GitHubProfileAnalyzer.filter_commit_search (analyze.py 164-193)  *)
(***************************************************************************)
HOTFIX == <<"h", "o", "t", "f", "i", "x">>
PATCH == <<"p", "a", "t", "c", "h">>
UPDATE == <<"u", "p", "d", "a", "t", "e">>
FIX == <<"f", "i", "x">>
WIP == <<"w", "i", "p">>
FINAL == <<"f", "i", "n", "a", "l">>

\* A sample of the string literals of POPULAR_COMMIT_MESSAGES, in source
\* order, each with whether a comma follows it in the source
\* (data.py 44, 47, 122, 135, 188, 209).
DenylistSource ==
    << [text |-> HOTFIX, comma |-> TRUE],
       [text |-> PATCH, comma |-> TRUE],
       [text |-> UPDATE, comma |-> FALSE],
       [text |-> FIX, comma |-> FALSE],
       [text |-> WIP, comma |-> FALSE],
       [text |-> FINAL, comma |-> FALSE] >>

\* Python's evaluation of a list display: adjacent string literals with no
\* comma between them are concatenated into one element
RECURSIVE EvalListDisplay(_, _, _)
EvalListDisplay(tokens, pending, acc) ==
    IF tokens = <<>>
    THEN IF pending = <<>> THEN acc ELSE acc \cup {pending}
    ELSE LET t == Head(tokens) IN
         IF t.comma
         THEN EvalListDisplay(Tail(tokens), <<>>, acc \cup {pending \o t.text})
         ELSE EvalListDisplay(Tail(tokens), pending \o t.text, acc)

\* the list the interpreter builds (data.py 5-210)
POPULAR_COMMIT_MESSAGES == EvalListDisplay(DenylistSource, <<>>, {})

Whitespace == {" ", "\n", "\r", "\t"}

\* str.strip()
RECURSIVE Strip(_)
Strip(m) ==
    IF m = <<>> THEN m
    ELSE IF Head(m) \in Whitespace THEN Strip(Tail(m))
    ELSE IF m[Len(m)] \in Whitespace THEN Strip(SubSeq(m, 1, Len(m) - 1))
    ELSE m

\* _valid_target_search (filter.py 151-154)
ValidTargetSearch(message) == Strip(message) \notin POPULAR_COMMIT_MESSAGES

\* _clean_commit_message (filter.py 156-158)
CleanCommitMessage(message) ==
    [i \in 1..Len(message) |->
        IF message[i] \in {"\n", "\r"} THEN " " ELSE message[i]]

\* commit messages: a denylisted literal that is followed by a comma, a
\* one-character substitution of it, the literal with a trailing blank, a
\* denylisted literal that is not followed by a comma, and an unrelated one
PATCY == <<"p", "a", "t", "c", "y">>
PATCH_BLANK == <<"p", "a", "t", "c", "h", " ">>
NOVEL == <<"n", "o", "v", "e", "l">>
MessageValues == {PATCH, PATCY, PATCH_BLANK, FIX, NOVEL}

\* a commit as GitCommit.to_dict builds it (github.py 26-37) or as the REST
\* API returns it
MessageRecord(shape, m) ==
    IF shape = "to_dict" THEN [message |-> m] ELSE [commit |-> [message |-> m]]

MaxSimCommits == 2

InitSim ==
    /\ simPc = "call"
    /\ \E shape \in CommitShapes :
          sim_commits \in UNION { [1..n -> {MessageRecord(shape, m) : m \in MessageValues}] :
                                  n \in 1..MaxSimCommits }
    /\ sim_idx = 1
    /\ search_requests = <<>>
    /\ filtered_commits = <<>>

\* analyze.py 176-178: filter_commit_search passes repo_name=..., a keyword
\* filter_commits_by_similarity(self, commits_data) does not accept; the
\* TypeError is caught and logged at analyze.py 192-193
FilterCommitSearch ==
    /\ simPc = "call"
    /\ simPc' = "type_error"
    /\ UNCHANGED <<sim_commits, sim_idx, search_requests, filtered_commits>>
    /\ SimFrame

\* filter_commits_by_similarity(commits_data) called as its signature allows
\* (filter.py 46-72), entering _process_repo_commits for a repository
FilterCommitsBySimilarity ==
    /\ simPc = "call"
    /\ simPc' = "loop"
    /\ UNCHANGED <<sim_commits, sim_idx, search_requests, filtered_commits>>
    /\ SimFrame

\* filter.py 87: commit["commit"]["message"] on a record without "commit"
ProcessCommitKeyError ==
    /\ simPc = "loop"
    /\ sim_idx <= Len(sim_commits)
    /\ ~HasKey(sim_commits[sim_idx], "commit")
    /\ simPc' = "key_error"
    /\ UNCHANGED <<sim_commits, sim_idx, search_requests, filtered_commits>>
    /\ SimFrame

\* filter.py 86-101, else branch: the message is on the list
ProcessCommitNotValid ==
    /\ simPc = "loop"
    /\ sim_idx <= Len(sim_commits)
    /\ HasKey(sim_commits[sim_idx], "commit")
    /\ ~ValidTargetSearch(sim_commits[sim_idx].commit.message)
    /\ sim_idx' = sim_idx + 1
    /\ UNCHANGED <<simPc, sim_commits, search_requests, filtered_commits>>
    /\ SimFrame

\* filter.py 86-99 and 105-149: the message is searched; the search gives a
\* result record or None (no results, no matching repository, or an error)
ProcessCommitSearch ==
    /\ simPc = "loop"
    /\ sim_idx <= Len(sim_commits)
    /\ HasKey(sim_commits[sim_idx], "commit")
    /\ ValidTargetSearch(sim_commits[sim_idx].commit.message)
    /\ LET cleaned_message == CleanCommitMessage(sim_commits[sim_idx].commit.message) IN
       /\ search_requests' = Append(search_requests, cleaned_message)
       /\ \E found \in BOOLEAN :
             filtered_commits' = IF found THEN Append(filtered_commits, cleaned_message)
                                          ELSE filtered_commits
    /\ sim_idx' = sim_idx + 1
    /\ UNCHANGED <<simPc, sim_commits>>
    /\ SimFrame

\* filter.py 103
ProcessCommitsReturn ==
    /\ simPc = "loop"
    /\ sim_idx > Len(sim_commits)
    /\ simPc' = "returned"
    /\ UNCHANGED <<sim_commits, sim_idx, search_requests, filtered_commits>>
    /\ SimFrame

NextSim ==
    \/ FilterCommitSearch
    \/ FilterCommitsBySimilarity
    \/ ProcessCommitKeyError
    \/ ProcessCommitNotValid
    \/ ProcessCommitSearch
    \/ ProcessCommitsReturn

(***************************************************************************)
(* GitCloneManager._fetch_single_repo_commits and the collection of its    *)
(* results in fetch_repository_commits (utils/github.py 250-263, 302-389)  *)
(***************************************************************************)
MaxOwned == 2
MaxCloneHistory == 2
HistoryShas == {"s1", "s2"}

\* _format_commit(commit, owner=repo["owner"]["login"]).to_dict()
FormatCommit(sha, owner) == [sha |-> sha, owner |-> owner, pull_request |-> ""]

\* lines 337-346: commits of a cloned history
FormatHistory(history, owner) ==
    [i \in 1..Len(history) |-> FormatCommit(history[i], owner)]

\* the error record of lines 350-354 and 380-384; the reason is kept as a tag
FailureRecord(repo, reason) ==
    [repo_name |-> repo.name, clone_url |-> repo.clone_url, reason |-> reason]

OwnedRepoValues ==
    { [name |-> n, clone_url |-> <<"u">> \o n, history |-> h] :
        n \in RepoNames,
        h \in UNION { [1..k -> HistoryShas] : k \in 0..MaxCloneHistory } }

InitClone ==
    /\ clonePc = "cloning"
    /\ REMOVE_REPO \in BOOLEAN
    /\ has_token \in BOOLEAN
    /\ owned_repos \in { o \in UNION { [1..n -> OwnedRepoValues] : n \in 0..MaxOwned } :
                            \A i, j \in 1..Len(o) : i # j => o[i].name # o[j].name }
    /\ clone_results = [i \in 1..Len(owned_repos) |-> <<>>]
    /\ clone_outcome = [i \in 1..Len(owned_repos) |-> "pending"]
    /\ scratch_dirs = {}
    /\ clone_commits_data = <<>>
    /\ failed_repos = <<>>

\* Mutant of Finally: the scratch directory is never removed
Finally_Never(dirs, name) == dirs

\* the finally block (lines 387-389) applied to the directories that exist
Finally(dirs, name) == IF REMOVE_REPO THEN dirs \ {name} ELSE dirs

\* one call of _fetch_single_repo_commits for repository i ending with the
\* result res; dir_left tells whether the clone left repo_dir on disk
FinishSingleRepo(i, outcome, res, dir_left) ==
    /\ clonePc = "cloning"
    /\ clone_outcome[i] = "pending"
    /\ clone_outcome' = [clone_outcome EXCEPT ![i] = outcome]
    /\ clone_results' = [clone_results EXCEPT ![i] = res]
    /\ scratch_dirs' = Finally(IF dir_left THEN scratch_dirs \cup {owned_repos[i].name}
                                           ELSE scratch_dirs,
                               owned_repos[i].name)
    /\ UNCHANGED <<clonePc, REMOVE_REPO, has_token, owned_repos,
                   clone_commits_data, failed_repos>>
    /\ CloneFrame

\* lines 326-346: the clone and the enumeration succeed
CloneOk ==
    \E i \in 1..Len(owned_repos) :
        /\ Len(owned_repos[i].history) > 0
        /\ FinishSingleRepo(i, "ok",
              [repo_name |-> owned_repos[i].name,
               commits |-> FormatHistory(owned_repos[i].history, UsernameArg),
               error |-> <<>>], TRUE)

\* lines 326-346 on a repository without commits, when iter_commits yields
\* nothing
CloneEmptyOk ==
    \E i \in 1..Len(owned_repos) :
        /\ Len(owned_repos[i].history) = 0
        /\ FinishSingleRepo(i, "ok",
              [repo_name |-> owned_repos[i].name, commits |-> <<>>, error |-> <<>>],
              TRUE)

\* lines 348-354: the clone succeeds, opening or enumerating the repository
\* raises (GitPython raises for a repository whose HEAD has no commit)
CloneOkEnumError ==
    \E i \in 1..Len(owned_repos) :
        FinishSingleRepo(i, "enum_error",
            [repo_name |-> owned_repos[i].name, commits |-> <<>>,
             error |-> <<FailureRecord(owned_repos[i], "exception")>>], TRUE)

\* lines 356-359, 378-384: GitCommandError with the DMCA message
CloneDmca ==
    \E i \in 1..Len(owned_repos), dir_left \in BOOLEAN :
        FinishSingleRepo(i, "clone_failed",
            [repo_name |-> owned_repos[i].name, commits |-> <<>>,
             error |-> <<FailureRecord(owned_repos[i], "dmca")>>], dir_left)

\* lines 360-361, 374-375: authentication failed and there is no token to drop
CloneAuthFailed ==
    \E i \in 1..Len(owned_repos), dir_left \in BOOLEAN :
        /\ ~has_token
        /\ FinishSingleRepo(i, "clone_failed",
              [repo_name |-> owned_repos[i].name, commits |-> <<>>,
               error |-> <<FailureRecord(owned_repos[i], "failed")>>], dir_left)

\* lines 361-371: authentication failed, the retry without the token works;
\* _get_commits_from_repo returns [] on any error
CloneRetryOk ==
    \E i \in 1..Len(owned_repos), enum_ok \in BOOLEAN :
        /\ has_token
        /\ FinishSingleRepo(i, "ok",
              [repo_name |-> owned_repos[i].name,
               commits |-> IF enum_ok
                           THEN FormatHistory(owned_repos[i].history, UsernameArg)
                           ELSE <<>>,
               error |-> <<>>], TRUE)

\* lines 361-373: the retry without the token fails too
CloneRetryFailed ==
    \E i \in 1..Len(owned_repos), dir_left \in BOOLEAN :
        /\ has_token
        /\ FinishSingleRepo(i, "clone_failed",
              [repo_name |-> owned_repos[i].name, commits |-> <<>>,
               error |-> <<FailureRecord(owned_repos[i], "with_and_without")>>],
              dir_left)

\* lines 376-384: any other GitCommandError
CloneGitError ==
    \E i \in 1..Len(owned_repos), dir_left \in BOOLEAN :
        FinishSingleRepo(i, "clone_failed",
            [repo_name |-> owned_repos[i].name, commits |-> <<>>,
             error |-> <<FailureRecord(owned_repos[i], "git_error")>>], dir_left)

\* Mutant of ProcessCloneResults: the first failure ends the collection
RECURSIVE ProcessCloneResults_StopAtError(_, _, _)
ProcessCloneResults_StopAtError(res, cdata, failed) ==
    IF res = <<>> THEN [commits_data |-> cdata, failed_repos |-> failed]
    ELSE LET r == Head(res) IN
         IF r.error # <<>>
         THEN [commits_data |-> cdata, failed_repos |-> Append(failed, r.error[1])]
         ELSE IF r.commits # <<>>
         THEN ProcessCloneResults_StopAtError(Tail(res),
                                              DictPut(cdata, r.repo_name, r.commits), failed)
         ELSE ProcessCloneResults_StopAtError(Tail(res), cdata, failed)

\* lines 257-263: the loop over clone_results
RECURSIVE ProcessCloneResults(_, _, _)
ProcessCloneResults(res, cdata, failed) ==
    IF res = <<>> THEN [commits_data |-> cdata, failed_repos |-> failed]
    ELSE LET r == Head(res) IN
         IF r.error # <<>>
         THEN ProcessCloneResults(Tail(res), cdata, Append(failed, r.error[1]))
         ELSE IF r.commits # <<>>
         THEN ProcessCloneResults(Tail(res), DictPut(cdata, r.repo_name, r.commits), failed)
         ELSE ProcessCloneResults(Tail(res), cdata, failed)

\* lines 250-263: run_concurrent has every result, in the order of owned_repos
CollectCloneResults ==
    /\ clonePc = "cloning"
    /\ \A i \in 1..Len(owned_repos) : clone_outcome[i] # "pending"
    /\ LET out == ProcessCloneResults(clone_results, <<>>, <<>>) IN
       /\ clone_commits_data' = out.commits_data
       /\ failed_repos' = out.failed_repos
    /\ clonePc' = "returned"
    /\ UNCHANGED <<REMOVE_REPO, has_token, owned_repos, clone_results,
                   clone_outcome, scratch_dirs>>
    /\ CloneFrame

NextClone ==
    \/ CloneOk
    \/ CloneEmptyOk
    \/ CloneOkEnumError
    \/ CloneDmca
    \/ CloneAuthFailed
    \/ CloneRetryOk
    \/ CloneRetryFailed
    \/ CloneGitError
    \/ CollectCloneResults

(***************************************************************************)
(* process_target: run_analysis then generate_report, run after run, each  *)
(* run starting from the report the previous one persisted                 *)
(* (terminal.py 31-85, modules/analyze.py 14-63, 289-331, 548-585)         *)
(***************************************************************************)
Letters == {"a", "k", "x", "A", "K", "X"}

\* re.compile(r'^[a-zA-Z]+[0-9]{4}$').match(s)
DprkMatch(str) ==
    /\ Len(str) >= 5
    /\ \A i \in 1..(Len(str) - 4) : str[i] \in Letters
    /\ \A i \in (Len(str) - 3)..Len(str) : str[i] \in Digits

\* entry["email"].split('@')[0]
LocalPart(email) ==
    IF \E i \in 1..Len(email) : email[i] = "@"
    THEN SubSeq(email, 1, (CHOOSE i \in 1..Len(email) :
                              email[i] = "@" /\ \A j \in 1..(i - 1) : email[j] # "@") - 1)
    ELSE email

\* lines 305-313: the matches among the owner entries, names then local parts
RECURSIVE OwnerMatches(_, _)
OwnerMatches(owner, flags) ==
    IF owner = <<>> THEN flags
    ELSE LET entry == Head(owner)
             f1 == IF DprkMatch(entry.name)
                   THEN [flags EXCEPT !.usernames = Append(@, entry.name)] ELSE flags
             f2 == IF DprkMatch(LocalPart(entry.email))
                   THEN [f1 EXCEPT !.email_names = Append(@, LocalPart(entry.email))]
                   ELSE f1
         IN OwnerMatches(Tail(owner), f2)

\* lines 322-328: empty categories are deleted
DropEmpty(flags) ==
    [k \in {q \in DOMAIN flags : flags[q] # <<>>} |-> flags[k]]

\* detect_dprk_naming (lines 289-335) on self.data; the contributors loop
\* (lines 316-320) walks the keys of the contributors dict, which are
\* repository names, and adds nothing
DetectDprkNaming(user, data) ==
    LET start == [usernames |-> IF DprkMatch(user) THEN <<user>> ELSE <<>>,
                  email_names |-> <<>>]
    IN DropEmpty(IF "unique_emails" \in DOMAIN data
                 THEN OwnerMatches(data.unique_emails.owner, start)
                 ELSE start)

\* the owner entries the categorizer derives from the upstream commits
DprkName == <<"k", "1", "9", "9", "0">>
DprkEmail == <<"a", "2", "0", "0", "1", "@", "h">>
PlainEmail == <<"x", "@", "h">>
OwnerEntryValues ==
    { [name |-> n, email |-> e] : n \in {DprkName, N_x}, e \in {DprkEmail, PlainEmail} }

MaxOwnerEntries == 2
MaxRuns == 3
TargetNames == {UsernameArg, DprkName}

InitRun ==
    /\ runPc = "new_analyzer"
    /\ run_target \in TargetNames
    /\ upstream_owner \in UNION { [1..n -> OwnerEntryValues] : n \in 0..MaxOwnerEntries }
    /\ analyzer_data = <<>>
    /\ report_file = <<>>
    /\ reports_written = <<>>

\* GitHubProfileAnalyzer.__init__ (lines 14-42):
\* self.data = self.data_manager.load_existing() or {}
NewAnalyzer ==
    /\ runPc = "new_analyzer"
    /\ Len(reports_written) < MaxRuns
    /\ analyzer_data' = IF report_file = <<>> THEN <<>> ELSE report_file[1]
    /\ runPc' = "run_analysis"
    /\ UNCHANGED <<run_target, upstream_owner, report_file, reports_written>>
    /\ RunFrame

\* run_analysis (lines 44-63): the fetched keys are overwritten; the keys of
\* a loaded report that no step assigns (unique_emails among them) stay
RunAnalysis ==
    /\ runPc = "run_analysis"
    /\ analyzer_data' =
          [k \in DOMAIN analyzer_data \cup {"commits"} |->
              IF k = "commits" THEN upstream_owner ELSE analyzer_data[k]]
    /\ runPc' = "generate_report"
    /\ UNCHANGED <<run_target, upstream_owner, report_file, reports_written>>
    /\ RunFrame

\* generate_report (lines 366-585): unique_emails_list at line 397, then the
\* report dict in the order of its display: detect_dprk_naming (line 554)
\* before detect_identity_rotation (line 555), which stores
\* self.data["unique_emails"] (line 233); save_output persists the report
GenerateReport ==
    /\ runPc = "generate_report"
    /\ LET unique_emails_list == [owner |-> analyzer_data.commits]
           report_data ==
               [unique_emails |-> unique_emails_list,
                dprk_naming |-> DetectDprkNaming(run_target, analyzer_data),
                commits |-> analyzer_data.commits]
       IN /\ analyzer_data' =
                [k \in DOMAIN analyzer_data \cup {"unique_emails"} |->
                    IF k = "unique_emails" THEN unique_emails_list ELSE analyzer_data[k]]
          /\ report_file' = <<report_data>>
          /\ reports_written' = Append(reports_written, report_data)
    /\ runPc' = "new_analyzer"
    /\ UNCHANGED <<run_target, upstream_owner>>
    /\ RunFrame

NextRun ==
    \/ NewAnalyzer
    \/ RunAnalysis
    \/ GenerateReport

(***************************************************************************)
(* EmailCategorizer.__init__, is_contributor and categorize_emails         *)
(* (modules/categorize_emails.py 6-37, 126-173, 175-245)                   *)
(***************************************************************************)
\* s.startswith(prefix)
StartsWith(str, prefix) ==
    Len(prefix) <= Len(str) /\ SubSeq(str, 1, Len(prefix)) = prefix

\* s.split(ch)[0]
BeforeFirst(str, ch) ==
    IF \E i \in 1..Len(str) : str[i] = ch
    THEN SubSeq(str, 1, (CHOOSE i \in 1..Len(str) :
                            str[i] = ch /\ \A j \in 1..(i - 1) : str[j] # ch) - 1)
    ELSE str

\* s.split(ch)[1], for a string that contains ch
SecondField(str, ch) ==
    LET i == CHOOSE k \in 1..Len(str) : str[k] = ch /\ \A j \in 1..(k - 1) : str[j] # ch
    IN BeforeFirst(SubSeq(str, i + 1, Len(str)), ch)

\* s.replace(" ", "")
NoSpaces(str) == SelectSeq(str, LAMBDA c : c # " ")

USERS_NOREPLY ==
    <<"@", "u", "s", "e", "r", "s", ".", "n", "o", "r", "e", "p", "l",
    "y", ".", "g", "i", "t", "h", "u", "b", ".", "c", "o", "m">>

\* __init__, lines 10-28: the lower-cased contributor logins of every
\* repository, without the owner
AllContributors(contributors_data) ==
    {Lower(contributors_data[i]) : i \in 1..Len(contributors_data)} \ {username}

\* is_contributor (lines 126-173)
IsContributor(name, email, contributors) ==
    LET name_lower == Lower(name)
        email_lower == Lower(email)
        email_username == BeforeFirst(email_lower, "@")
        noreply_username ==
            IF \E i \in 1..Len(email_lower) : email_lower[i] = "+"
            THEN BeforeFirst(SecondField(email_lower, "+"), "@")
            ELSE BeforeFirst(email_lower, "@")
        name_no_spaces == NoSpaces(name_lower)
    IN \/ name_lower \in contributors
       \/ email_username \in contributors
       \/ StrIn(USERS_NOREPLY, email_lower) /\ noreply_username \in contributors
       \/ \E contributor \in contributors :
             \/ StartsWith(contributor, name_lower)
             \/ StartsWith(name_lower, contributor)
             \/ name_no_spaces = contributor
             \/ StrIn(contributor, name_no_spaces)
             \/ StartsWith(contributor, email_username)
             \/ StartsWith(email_username, contributor)

\* lines 183-197: unique_pairs
UniquePairs(cs) ==
    UNION { (IF cs[i].author_email # <<>> /\ cs[i].author_name # <<>>
             THEN {<<cs[i].author_name, cs[i].author_email>>} ELSE {})
            \cup
            (IF cs[i].committer_email # <<>> /\ cs[i].committer_name # <<>>
             THEN {<<cs[i].committer_name, cs[i].committer_email>>} ELSE {})
          : i \in 1..Len(cs) }

\* lines 213-216
IsGitHubPair(pair) == pair[2] = E_noreply /\ pair[1] = N_GitHub

\* Mutant of CategoryOf: the contributor test comes first
CategoryOf_ContributorFirst(pair, owner_pairs, contributors) ==
    IF IsContributor(pair[1], pair[2], contributors) THEN "contributors_emails"
    ELSE IF pair \in owner_pairs THEN "owner_emails"
    ELSE "other_emails"

\* lines 218-231: the category of one pair
CategoryOf(pair, owner_pairs, contributors) ==
    IF pair \in owner_pairs THEN "owner_emails"
    ELSE IF IsContributor(pair[1], pair[2], contributors) THEN "contributors_emails"
    ELSE "other_emails"

\* commits whose author has no name or no email, besides the pool above
EmailCommitPool ==
    CommitPool \cup
    { [author_name |-> <<>>, author_email |-> E_e1,
       committer_name |-> N_GitHub, committer_email |-> E_noreply],
      [author_name |-> N_b, author_email |-> <<>>,
       committer_name |-> N_B, committer_email |-> E_e2] }

ContributorsData == { <<>>, <<N_B>>, <<N_B, UsernameArg>> }

InitEmails ==
    /\ catPc = "seed"
    /\ commits \in UNION { [1..n -> EmailCommitPool] : n \in 0..MaxCommits }
    /\ commit_idx = 1
    /\ owner_identities = {username}
    /\ owner_name_email_pairs = {}
    /\ changed = FALSE
    /\ passes = 0
    /\ pass_added = {}
    /\ emailPc = "identify"
    /\ \E cd \in ContributorsData : all_contributors = AllContributors(cd)
    /\ categorized = [owner_emails |-> {}, contributors_emails |-> {},
                      other_emails |-> {}]

\* categorize_emails, lines 209-236, once _identify_owner_details has
\* returned; each list is kept as the set of its entries (the pairs come from
\* a set, so no list holds an entry twice)
CategorizeEmails ==
    /\ emailPc = "identify"
    /\ catPc = "done"
    /\ LET pairs == {q \in UniquePairs(commits) : ~IsGitHubPair(q)} IN
       categorized' =
          [c \in {"owner_emails", "contributors_emails", "other_emails"} |->
              {q \in pairs : CategoryOf(q, owner_name_email_pairs, all_contributors) = c}]
    /\ emailPc' = "returned"
    /\ UNCHANGED all_contributors
    /\ UNCHANGED <<apiVars, pageVars, catVars, dateVars, extVars, simVars, cloneVars,
                   runVars, reportVars, batchVars, makeVars, concVars, saveVars,
                   monitorVars, collectVars>>

NextEmails ==
    \/ SeedCommit
    \/ SeedDone
    \/ WhileTest
    \/ ClosureCommit
    \/ PassDone
    \/ CategorizeEmails

(***************************************************************************)
(* GitHubProfileAnalyzer.generate_report: what the persisted report holds, *)
(* for the states of self.data a run_analysis can leave                    *)
(* (modules/analyze.py 44-63, 366-591)                                     *)
(***************************************************************************)
\* the keys run_analysis assigns, in the order of its steps (lines 46-59);
\* an exception in a step ends run_analysis, the later keys stay unassigned
AnalysisSteps ==
    << "profile_data", "following", "followers", "repos", "commits", "errors",
       "commits_msgs", "contributors", "recent_events", "received_events",
       "issues", "comments", "organizations_member", "date_filter" >>

\* the steps that are not wrapped in a try of their own, by position: the
\* places where run_analysis can end early
AbortPoints == {1, 2, 3, 4, 5, 14}
NoAbort == Len(AnalysisSteps) + 1

MaxEmptyKeys == 2

\* self.data after a run_analysis that ended at step abort_at: every earlier
\* key holds a value ("empty" for an empty container, "filled" for a
\* container that may hold entries, "none" for a profile the API did not
\* return); commits and errors are assigned by the same step, so 6 is no
\* abort point
DataAfter(abort_at, profile, empties) ==
    LET done == {AnalysisSteps[i] : i \in 1..(abort_at - 1)}
    IN [k \in done |->
          IF k = "profile_data" THEN profile
          ELSE IF k \in empties THEN "empty" ELSE "filled"]

DataGetDefault(data, k) == IF k \in DOMAIN data THEN data[k] ELSE "empty"

\* what stops generate_report before the report is assembled:
\* self.data["repos"] (lines 385-394), self.data["followers"] (line 506),
\* self.data["profile_data"].get (lines 513-526)
ReportRaises(data) ==
    \/ "repos" \notin DOMAIN data
    \/ "followers" \notin DOMAIN data
    \/ "profile_data" \notin DOMAIN data
    \/ data["profile_data"] = "none"

\* a value computed from the collected data under key k: empty when there is
\* nothing to compute it from
DerivedFrom(data, k) == IF DataGetDefault(data, k) = "filled" THEN "filled" ELSE "empty"

\* Mutant of ReportData: only the keys whose data was collected are written
ReportData_CollectedOnly(data) ==
    [k \in {"profile_info", "original_repos_count", "forked_repos_count",
            "unique_emails", "followers", "repo_list", "forked_repo_list", "repos"}
           \cup (DOMAIN data \cap {"contributors", "following", "commits", "errors",
                                   "recent_events", "received_events", "issues",
                                   "comments", "organizations_member"}) |->
        IF k \in DOMAIN data THEN data[k] ELSE "filled"]

\* report_data (lines 549-577), each key with the kind of value it holds
ReportData(data) ==
    [ profile_info |-> "filled",
      original_repos_count |-> "number",
      forked_repos_count |-> "number",
      unique_emails |-> "filled",
      dprk_naming |-> DerivedFrom(data, "commits"),
      identity_rotation |-> DerivedFrom(data, "commits"),
      mutual_followers |-> IF data["followers"] = "filled"
                              /\ DataGetDefault(data, "following") = "filled"
                           THEN "filled" ELSE "empty",
      potential_copy |-> DataGetDefault(data, "date_filter"),
      contributors |-> DataGetDefault(data, "contributors"),
      following |-> DataGetDefault(data, "following"),
      followers |-> data["followers"],
      repo_list |-> data["repos"],
      forked_repo_list |-> data["repos"],
      pull_requests_to_other_repos |-> DerivedFrom(data, "commits"),
      prs_to_organizations |-> DerivedFrom(data, "commits"),
      commits_to_other_repos |-> DerivedFrom(data, "commits"),
      duplicate_hashes_found |-> DerivedFrom(data, "commits"),
      repos |-> data["repos"],
      commits |-> DataGetDefault(data, "commits"),
      errors |-> DataGetDefault(data, "errors"),
      commit_filter |-> DataGetDefault(data, "commit_filter"),
      recent_events |-> DataGetDefault(data, "recent_events"),
      received_events |-> DataGetDefault(data, "received_events"),
      issues |-> DataGetDefault(data, "issues"),
      issues_to_organizations |-> DerivedFrom(data, "issues"),
      comments |-> DataGetDefault(data, "comments"),
      organizations_member |-> DataGetDefault(data, "organizations_member") ]

InitReport ==
    /\ reportPc = "generate_report"
    /\ \E abort_at \in AbortPoints \cup {NoAbort}, profile \in {"none", "filled"},
          empties \in {e \in SUBSET {AnalysisSteps[i] : i \in 2..Len(AnalysisSteps)} :
                          Cardinality(e) <= MaxEmptyKeys} :
          self_data = DataAfter(abort_at, profile, empties)
    /\ saved_report = <<>>

\* lines 370-372: nothing was collected
GenerateReportNoData ==
    /\ reportPc = "generate_report"
    /\ DOMAIN self_data = {}
    /\ reportPc' = "returned"
    /\ UNCHANGED <<self_data, saved_report>>
    /\ ReportFrame

\* one of the inner try blocks raises and generate_report re-raises
\* (lines 591-593); nothing is saved
GenerateReportRaises ==
    /\ reportPc = "generate_report"
    /\ DOMAIN self_data # {}
    /\ ReportRaises(self_data)
    /\ reportPc' = "raised"
    /\ UNCHANGED <<self_data, saved_report>>
    /\ ReportFrame

\* lines 548-585: the report is assembled and handed to save_output, whose
\* remove_unwanted_keys drops none of the top-level keys
GenerateReportSaves ==
    /\ reportPc = "generate_report"
    /\ DOMAIN self_data # {}
    /\ ~ReportRaises(self_data)
    /\ saved_report' = <<ReportData(self_data)>>
    /\ reportPc' = "returned"
    /\ UNCHANGED self_data
    /\ ReportFrame

NextReport ==
    \/ GenerateReportNoData
    \/ GenerateReportRaises
    \/ GenerateReportSaves

(***************************************************************************)
(* terminal: the loop over the targets of a targets file, and              *)
(* process_target (terminal.py 31-85, 397-411; utils/data.py 267-293)      *)
(***************************************************************************)
Usernames == {"A", "B"}
MaxTargets == 3

\* Mutant of ReportFile: one report file for every username
ReportFile_Shared(user) == <<"out", "report.json">>

\* DataManager.__init__: user_dir = <out>/<username>, report_file =
\* user_dir/report.json
ReportFile(user) == <<"out", user, "report.json">>

\* load_existing: the parsed report file, None where there is none
HasData(files, user) == ReportFile(user) \in DOMAIN files

\* save_output: the report file of this username is (over)written
SaveOutput(files, user, at) ==
    [path \in DOMAIN files \cup {ReportFile(user)} |->
        IF path = ReportFile(user)
        THEN [of |-> user, written_at |-> at]
        ELSE files[path]]

InitBatch ==
    /\ batchPc = "loop"
    /\ targets \in UNION {[1..n -> Usernames] : n \in 0..MaxTargets}
    /\ regenerate \in BOOLEAN
    /\ commit_search \in BOOLEAN
    /\ target_idx = 1
    /\ \E present \in SUBSET Usernames :
          report_files = [path \in {ReportFile(u) : u \in present} |->
                             [of |-> CHOOSE u \in present : ReportFile(u) = path,
                              written_at |-> 0]]
    /\ outcomes = <<>>

InLoop == batchPc = "loop" /\ target_idx <= Len(targets)

NextTarget(outcome) ==
    /\ target_idx' = target_idx + 1
    /\ outcomes' = Append(outcomes, outcome)
    /\ UNCHANGED <<batchPc, targets, regenerate, commit_search>>
    /\ BatchFrame

\* generate_report as process_target sees it: the report is saved, or an
\* exception comes out and is caught at line 84
GenerateReportInTarget(user) ==
    \/ /\ report_files' = SaveOutput(report_files, user, target_idx)
       /\ NextTarget("saved")
    \/ /\ UNCHANGED report_files
       /\ NextTarget("error")

\* lines 399-401: the targets file gave no target
NoTargets ==
    /\ batchPc = "loop"
    /\ targets = <<>>
    /\ batchPc' = "done"
    /\ UNCHANGED <<targets, regenerate, commit_search, target_idx,
                   report_files, outcomes>>
    /\ BatchFrame

\* the constructor raises (the user directory cannot be made): caught at 84
ProcessTargetNoAnalyzer ==
    /\ InLoop
    /\ UNCHANGED report_files
    /\ NextTarget("error")

\* lines 35-42: regenerate from the data on disk
ProcessTargetRegenerate ==
    /\ InLoop
    /\ regenerate
    /\ IF HasData(report_files, targets[target_idx])
       THEN GenerateReportInTarget(targets[target_idx])
       ELSE UNCHANGED report_files /\ NextTarget("no_data")

\* lines 56-62: commit search on existing data; filter_commit_search logs
\* its exception (analyze.py 172-193) and nothing is saved
ProcessTargetSearchExisting ==
    /\ InLoop
    /\ ~regenerate /\ commit_search
    /\ HasData(report_files, targets[target_idx])
    /\ UNCHANGED report_files
    /\ NextTarget("search_failed")

\* lines 63-73 and 74-82: run_analysis (which logs a failed step and
\* returns), then generate_report
ProcessTargetAnalyze ==
    /\ InLoop
    /\ ~regenerate
    /\ commit_search => ~HasData(report_files, targets[target_idx])
    /\ GenerateReportInTarget(targets[target_idx])

\* a 401 answer during the analysis: exit(1) (utils/api.py 53-55) is not an
\* Exception and ends the program
ProcessTargetExit ==
    /\ InLoop
    /\ ~regenerate
    /\ commit_search => ~HasData(report_files, targets[target_idx])
    /\ batchPc' = "exited"
    /\ outcomes' = Append(outcomes, "fatal")
    /\ UNCHANGED <<targets, regenerate, commit_search, target_idx, report_files>>
    /\ BatchFrame

\* the for loop is exhausted
BatchFinish ==
    /\ batchPc = "loop"
    /\ targets # <<>>
    /\ target_idx > Len(targets)
    /\ batchPc' = "done"
    /\ UNCHANGED <<targets, regenerate, commit_search, target_idx,
                   report_files, outcomes>>
    /\ BatchFrame

NextBatch ==
    \/ NoTargets
    \/ ProcessTargetNoAnalyzer
    \/ ProcessTargetRegenerate
    \/ ProcessTargetSearchExisting
    \/ ProcessTargetAnalyze
    \/ ProcessTargetExit
    \/ BatchFinish

(***************************************************************************)
(* ConcurrentExecutor._make_api_request: the request fetch_all_pages makes *)
(* for page 2 and every later page (utils/concurrent.py 113-150,           *)
(* utils/api.py 155-175)                                                   *)
(***************************************************************************)
max_retries == 3
retry_delay == 1

InitMake ==
    /\ mkPc = "loop"
    /\ attempt = 0
    /\ mk_responses = <<>>
    /\ mk_sleeps = <<>>
    /\ mk_result = <<>>

\* range(max_retries) has another attempt and session.get is called
CanAttempt == mkPc = "loop" /\ attempt < max_retries

\* lines 131-132
MakeRespond200 ==
    /\ CanAttempt
    /\ mk_responses' = Append(mk_responses, [status |-> 200, retry_after |-> <<>>])
    /\ mk_result' = <<"json">>
    /\ mkPc' = "returned"
    /\ UNCHANGED <<attempt, mk_sleeps>>
    /\ MakeFrame

\* lines 133-139: Retry-After is slept as given, without it the delay grows
\* with the attempt; int() of a value that is no number is not caught by
\* the except clause of line 144 and leaves the coroutine
MakeRespondRateLimit ==
    /\ CanAttempt
    /\ \E status \in RateLimitStatuses, ra \in HeaderOptions(H_RetryAfter) :
          /\ mk_responses' = Append(mk_responses, [status |-> status, retry_after |-> ra])
          /\ IF ra # <<>> /\ ~PyInt(ra[1]).ok
             THEN /\ mkPc' = "raised"
                  /\ UNCHANGED <<attempt, mk_sleeps>>
             ELSE /\ mk_sleeps' = Append(mk_sleeps,
                                         IF ra # <<>> THEN PyInt(ra[1]).val
                                         ELSE retry_delay * (attempt + 1))
                  /\ attempt' = attempt + 1
                  /\ UNCHANGED mkPc
    /\ UNCHANGED mk_result
    /\ MakeFrame

\* lines 140-142: every other status, 401 included, gives None
MakeRespondOther ==
    /\ CanAttempt
    /\ \E status \in Statuses \ ({200} \cup RateLimitStatuses) :
          mk_responses' = Append(mk_responses, [status |-> status, retry_after |-> <<>>])
    /\ mk_result' = <<"None">>
    /\ mkPc' = "returned"
    /\ UNCHANGED <<attempt, mk_sleeps>>
    /\ MakeFrame

\* lines 144-147
MakeClientError ==
    /\ CanAttempt
    /\ mk_responses' = Append(mk_responses, [status |-> 0, retry_after |-> <<>>])
    /\ mk_sleeps' = Append(mk_sleeps, retry_delay * (attempt + 1))
    /\ attempt' = attempt + 1
    /\ UNCHANGED <<mkPc, mk_result>>
    /\ MakeFrame

\* lines 149-150
MakeMaxRetries ==
    /\ mkPc = "loop"
    /\ attempt >= max_retries
    /\ mk_result' = <<"None">>
    /\ mkPc' = "returned"
    /\ UNCHANGED <<attempt, mk_responses, mk_sleeps>>
    /\ MakeFrame

NextMake ==
    \/ MakeRespond200
    \/ MakeRespondRateLimit
    \/ MakeRespondOther
    \/ MakeClientError
    \/ MakeMaxRetries

(***************************************************************************)
(* ConcurrentExecutor.run_concurrent and run_api_requests, and the use     *)
(* fetch_user_issue_comments makes of the result                           *)
(* (utils/concurrent.py 24-111, modules/fetch.py 172-214)                  *)
(***************************************************************************)
api_batch_size == 5
MaxInputs == 6

\* what the i-th worker left: the value computed for input i, None, or (for
\* run_api_requests) the exception gather(return_exceptions=True) returns
ResultEntry(mode, i, outcome) ==
    IF outcome = "ok" THEN [kind |-> "ok", of |-> i]
    ELSE IF outcome = "exc" /\ mode = "api" THEN [kind |-> "exc", of |-> i]
    ELSE [kind |-> "none", of |-> i]

\* Mutant of BatchResults: a failed input leaves no entry
BatchResults_SkipFailed(mode, lo, hi, outcome) ==
    SelectSeq([k \in 1..(hi - lo + 1) |-> ResultEntry(mode, lo + k - 1, outcome[lo + k - 1])],
              LAMBDA e : e.kind = "ok")

\* the results of the inputs lo..hi in the order of the futures (lines 41-48)
\* or of the tasks given to gather (line 104)
BatchResults(mode, lo, hi, outcome) ==
    [k \in 1..(hi - lo + 1) |-> ResultEntry(mode, lo + k - 1, outcome[lo + k - 1])]

\* the inputs whose workers are running: every input for run_concurrent
\* (lines 36-39), the current batch for run_api_requests (lines 88-101)
BatchEnd == IF conc_mode = "threads" THEN n_inputs
            ELSE Min(conc_batch_start + api_batch_size - 1, n_inputs)
Running == {i \in conc_batch_start..BatchEnd : conc_outcome[i] = "pending"}

InitConc ==
    /\ concPc = "running"
    /\ conc_mode \in {"threads", "api"}
    /\ n_inputs \in 0..MaxInputs
    /\ conc_outcome = [i \in 1..n_inputs |-> "pending"]
    /\ conc_batch_start = 1
    /\ overtaken = FALSE
    /\ comments_results = <<>>
    /\ cleaned_comments = <<>>

\* a worker ends, in any order: with a value, with None (the request failed),
\* or with an exception
WorkerFinishes ==
    /\ concPc = "running"
    /\ \E i \in Running, o \in {"ok", "none", "exc"} :
          /\ conc_outcome' = [conc_outcome EXCEPT ![i] = o]
          /\ overtaken' = (overtaken \/ \E j \in Running : j < i)
    /\ UNCHANGED <<concPc, conc_mode, n_inputs, conc_batch_start,
                   comments_results, cleaned_comments>>
    /\ ConcFrame

\* run_concurrent lines 41-50: future.result() of every future, in the order
\* of submission
CollectFutures ==
    /\ concPc = "running"
    /\ conc_mode = "threads"
    /\ Running = {}
    /\ comments_results' = BatchResults(conc_mode, 1, n_inputs, conc_outcome)
    /\ concPc' = "returned"
    /\ UNCHANGED <<conc_mode, n_inputs, conc_outcome, conc_batch_start,
                   overtaken, cleaned_comments>>
    /\ ConcFrame

\* _run_api_requests_async lines 104-111: the batch is gathered and the
\* next batch is started, or the results are returned
GatherBatch ==
    /\ concPc = "running"
    /\ conc_mode = "api"
    /\ Running = {}
    /\ comments_results' = comments_results \o
          BatchResults(conc_mode, conc_batch_start, BatchEnd, conc_outcome)
    /\ conc_batch_start' = conc_batch_start + api_batch_size
    /\ concPc' = IF conc_batch_start + api_batch_size <= n_inputs
                 THEN "running" ELSE "returned"
    /\ UNCHANGED <<conc_mode, n_inputs, conc_outcome, overtaken, cleaned_comments>>
    /\ ConcFrame

\* fetch_user_issue_comments lines 196-212: comments_results[i] is read with
\* comment_requests[i]; None is skipped
ProcessComments ==
    /\ concPc = "returned"
    /\ conc_mode = "api"
    /\ \A i \in 1..Len(comments_results) : comments_results[i].kind # "exc"
    /\ cleaned_comments' =
          [k \in 1..Len(SelectSeq(comments_results, LAMBDA e : e.kind = "ok")) |->
              LET idx == CHOOSE i \in 1..Len(comments_results) :
                            /\ comments_results[i].kind = "ok"
                            /\ Cardinality({j \in 1..i : comments_results[j].kind = "ok"}) = k
              IN [issue |-> idx, comments_of |-> comments_results[idx].of]]
    /\ concPc' = "processed"
    /\ UNCHANGED <<conc_mode, n_inputs, conc_outcome, conc_batch_start,
                   overtaken, comments_results>>
    /\ ConcFrame

\* line 199: an exception object in the list is truthy and not iterable
ProcessCommentsTypeError ==
    /\ concPc = "returned"
    /\ conc_mode = "api"
    /\ \E i \in 1..Len(comments_results) : comments_results[i].kind = "exc"
    /\ concPc' = "raised"
    /\ UNCHANGED <<conc_mode, n_inputs, conc_outcome, conc_batch_start,
                   overtaken, comments_results, cleaned_comments>>
    /\ ConcFrame

NextConc ==
    \/ WorkerFinishes
    \/ CollectFutures
    \/ GatherBatch
    \/ ProcessComments
    \/ ProcessCommentsTypeError

(***************************************************************************)
(* DataManager.save_output / save_to_json: the report file while it is     *)
(* written (utils/data.py 278-293)                                         *)
(***************************************************************************)
MaxChunks == 3

\* a serialized report, as the chunks json.dump hands to the file one by one
Documents == UNION {[1..n -> {"a", "b"}] : n \in 1..MaxChunks}

NoFile == [exists |-> FALSE, text |-> <<>>]
FileWith(text) == [exists |-> TRUE, text |-> text]

InitSave ==
    /\ savePc = "save_output"
    /\ \E old \in Documents : previous_file \in {NoFile, FileWith(old)}
    /\ file_on_disk = previous_file
    /\ new_document \in Documents

\* line 288: open(filename, "w") creates the file or truncates it
OpenForWriting ==
    /\ savePc = "save_output"
    /\ file_on_disk' = FileWith(<<>>)
    /\ savePc' = "dumping"
    /\ UNCHANGED <<previous_file, new_document>>
    /\ SaveFrame

\* line 289: json.dump writes the next chunk
WriteChunk ==
    /\ savePc = "dumping"
    /\ Len(file_on_disk.text) < Len(new_document)
    /\ file_on_disk' =
          FileWith(Append(file_on_disk.text, new_document[Len(file_on_disk.text) + 1]))
    /\ UNCHANGED <<savePc, previous_file, new_document>>
    /\ SaveFrame

\* line 289: json.dump meets a value it cannot serialize (TypeError) or the
\* write fails (OSError); the with block closes the file, save_to_json logs
\* and re-raises (lines 291-293), save_output logs (lines 283-284)
DumpRaises ==
    /\ savePc = "dumping"
    /\ Len(file_on_disk.text) < Len(new_document)
    /\ savePc' = "failed"
    /\ UNCHANGED <<previous_file, file_on_disk, new_document>>
    /\ SaveFrame

\* the process is interrupted or killed during lines 288-289
SaveInterrupted ==
    /\ savePc = "dumping"
    /\ Len(file_on_disk.text) < Len(new_document)
    /\ savePc' = "interrupted"
    /\ UNCHANGED <<previous_file, file_on_disk, new_document>>
    /\ SaveFrame

\* lines 289-290: the last chunk is written and the file is closed
DumpCompletes ==
    /\ savePc = "dumping"
    /\ Len(file_on_disk.text) = Len(new_document)
    /\ savePc' = "saved"
    /\ UNCHANGED <<previous_file, file_on_disk, new_document>>
    /\ SaveFrame

NextSave ==
    \/ OpenForWriting
    \/ WriteChunk
    \/ DumpRaises
    \/ SaveInterrupted
    \/ DumpCompletes

(***************************************************************************)
(* terminal with --monitor: GitHubMonitor.monitor and what terminal does   *)
(* after it returns (modules/monitor.py 169-207, terminal.py 372-411)      *)
(***************************************************************************)
MaxMonitorTargets == 2

\* the stage terminal enters after the stage `from`, given the arguments:
\* the if statements of lines 375, 378, 385, 390, 397 in their order; the
\* only_profile branch returns (line 388)
StageOrder == <<"monitor_username", "monitor_targets", "only_profile",
                "process_username", "process_targets">>
Enabled(stage) ==
    CASE stage = "monitor_username" -> arg_username # <<>>
      [] stage = "monitor_targets"  -> arg_targets # <<>>
      [] stage = "only_profile"     -> arg_only_profile
      [] stage = "process_username" -> arg_username # <<>>
      [] stage = "process_targets"  -> arg_targets # <<>>
StageAfter(k) ==
    IF k >= 1 /\ StageOrder[k] = "only_profile" THEN "done"
    ELSE IF \E j \in (k + 1)..Len(StageOrder) : Enabled(StageOrder[j])
    THEN StageOrder[CHOOSE j \in (k + 1)..Len(StageOrder) :
                       /\ Enabled(StageOrder[j])
                       /\ \A i \in (k + 1)..(j - 1) : ~Enabled(StageOrder[i])]
    ELSE "done"
StageIndex(stage) == CHOOSE k \in 1..Len(StageOrder) : StageOrder[k] = stage

InitMonitor ==
    /\ arg_username \in {<<>>} \cup {<<u>> : u \in Usernames}
    /\ arg_targets \in UNION {[1..n -> Usernames] : n \in 0..MaxMonitorTargets}
    /\ arg_username # <<>> \/ arg_targets # <<>>
    /\ arg_only_profile \in BOOLEAN
    /\ arg_only_profile => arg_username # <<>>
    /\ monPc = StageAfter(0)
    /\ mon_idx = 1
    /\ interrupts_caught = 0
    /\ api_requests = <<>>

InMonitor == monPc \in {"monitor_username", "monitor_targets"}

\* lines 179-207: Ctrl+C while the loop runs (before the first request or
\* during it) is caught, the stop is logged and monitor returns to terminal
MonitorKeyboardInterrupt ==
    /\ InMonitor
    /\ interrupts_caught' = interrupts_caught + 1
    /\ monPc' = StageAfter(StageIndex(monPc))
    /\ mon_idx' = 1
    /\ UNCHANGED <<arg_username, arg_targets, arg_only_profile, api_requests>>
    /\ MonitorFrame

\* lines 186-188 with terminal.py line 373: the monitor was given the class
\* APIUtils, so github_api_request(url, etag=etag) is called without an
\* instance and raises TypeError before any request is sent; the loop has
\* no except clause for it
MonitorFetchTypeError ==
    /\ InMonitor
    /\ monPc' = "crashed"
    /\ UNCHANGED <<arg_username, arg_targets, arg_only_profile, mon_idx,
                   interrupts_caught, api_requests>>
    /\ MonitorFrame

\* terminal.py lines 385-388 and 390-395: process_target for the username;
\* its analyzer has an APIUtils instance of its own and requests the profile
ProcessUsername ==
    /\ monPc \in {"only_profile", "process_username"}
    /\ api_requests' = Append(api_requests, arg_username[1])
    /\ monPc' = StageAfter(StageIndex(monPc))
    /\ UNCHANGED <<arg_username, arg_targets, arg_only_profile, mon_idx,
                   interrupts_caught>>
    /\ MonitorFrame

\* terminal.py lines 409-411: process_target for the next target of the file
ProcessNextTarget ==
    /\ monPc = "process_targets"
    /\ api_requests' = Append(api_requests, arg_targets[mon_idx])
    /\ IF mon_idx < Len(arg_targets)
       THEN mon_idx' = mon_idx + 1 /\ UNCHANGED monPc
       ELSE mon_idx' = 1 /\ monPc' = "done"
    /\ UNCHANGED <<arg_username, arg_targets, arg_only_profile, interrupts_caught>>
    /\ MonitorFrame

NextMonitor ==
    \/ MonitorKeyboardInterrupt
    \/ MonitorFetchTypeError
    \/ ProcessUsername
    \/ ProcessNextTarget

(***************************************************************************)
(* GitCloneManager.fetch_repository_commits: how commits_data is filled    *)
(* from the pull-request search, the commit search, the clones and the     *)
(* forks (utils/github.py 126-300)                                         *)
(***************************************************************************)
ExternalOwners == {<<"A">>, <<"B">>}
MaxPrResults == 2
MaxCommitResults == 2
PrShas == <<"p1", "p2", "p3">>
SearchShas == <<"c1", "c2", "c3">>

\* commit_obj.to_dict() with the owner and pull_request keys added
\* (lines 200-204, 241-245, 280-284)
CollectedCommit(owner, repo, sha, pr) ==
    [owner |-> owner, repo |-> repo, sha |-> sha, pull_request |-> pr]

\* lines 186-204: the commits of the pull requests of one repo_key, in the
\* order of pr_results; a pull request whose commits could not be fetched
\* gives none
RECURSIVE PrCommitsOf(_, _, _, _)
PrCommitsOf(prs, i, owner, repo) ==
    IF i > Len(prs) THEN <<>>
    ELSE (IF prs[i].owner = owner /\ prs[i].repo = repo /\ prs[i].fetched
          THEN <<CollectedCommit(owner, repo, PrShas[i], i)>> ELSE <<>>)
         \o PrCommitsOf(prs, i + 1, owner, repo)

\* lines 156-207: pr_by_repo is walked in the order its keys were first
\* seen, and the commits of a repo_key are stored under the bare repo_name
RECURSIVE StorePrCommits(_, _, _)
StorePrCommits(prs, i, data) ==
    IF i > Len(prs) THEN data
    ELSE LET first == \A j \in 1..(i - 1) :
                         ~(prs[j].owner = prs[i].owner /\ prs[j].repo = prs[i].repo)
             repo_commits == PrCommitsOf(prs, 1, prs[i].owner, prs[i].repo)
         IN StorePrCommits(prs, i + 1,
                IF first /\ repo_commits # <<>>
                THEN DictPut(data, prs[i].repo, repo_commits) ELSE data)

\* lines 210-245: a search hit is skipped when commits_data already has its
\* repo_name; otherwise its details are fetched and, if that succeeds, the
\* commit is appended under repo_name
RECURSIVE StoreSearchCommits(_, _, _)
StoreSearchCommits(hits, i, data) ==
    IF i > Len(hits) THEN data
    ELSE StoreSearchCommits(hits, i + 1,
            IF hits[i].repo \in DictKeys(data) \/ ~hits[i].fetched THEN data
            ELSE DictPut(data, hits[i].repo,
                         Append(DictGet(data, hits[i].repo),
                                CollectedCommit(hits[i].owner, hits[i].repo,
                                                SearchShas[i], ""))))

\* lines 256-263: the commits of every clone that gave some are stored under
\* the repo_name
RECURSIVE StoreCloneCommits(_, _)
StoreCloneCommits(clones, data) ==
    IF clones = <<>> THEN data
    ELSE StoreCloneCommits(Tail(clones),
            DictPut(data, Head(clones),
                    <<CollectedCommit(UsernameArg, Head(clones), "k1", "")>>))

\* lines 266-290: a fork is asked for the user's commits unless commits_data
\* already has its repo_name
RECURSIVE StoreForkCommits(_, _)
StoreForkCommits(forks, data) ==
    IF forks = <<>> THEN data
    ELSE StoreForkCommits(Tail(forks),
            IF Head(forks) \in DictKeys(data) THEN data
            ELSE DictPut(data, Head(forks),
                         <<CollectedCommit(UsernameArg, Head(forks), "f1", "")>>))

\* the repository names in the order of the repositories list
NameLists == {<<>>, <<<<"r">>>>, <<<<"s">>>>, <<<<"r">>, <<"s">>>>}

InitCollect ==
    /\ colPc = "prs"
    /\ pr_results \in UNION {[1..n -> [owner : ExternalOwners, repo : RepoNames,
                                       fetched : BOOLEAN]] : n \in 0..MaxPrResults}
    /\ commit_results \in UNION {[1..n -> [owner : ExternalOwners, repo : RepoNames,
                                           fetched : BOOLEAN]] : n \in 0..MaxCommitResults}
    /\ cloned_repos \in NameLists
    /\ forked_repos \in NameLists
    /\ \A i \in 1..Len(cloned_repos), j \in 1..Len(forked_repos) :
          cloned_repos[i] # forked_repos[j]
    /\ col_commits_data = <<>>
    /\ fetched_commits = {}

CollectFrom(before, after) ==
    fetched_commits' = fetched_commits \cup
        UNION { {after[i].val[j] : j \in 1..Len(after[i].val)} : i \in 1..Len(after) }

\* lines 152-207
CollectPullRequests ==
    /\ colPc = "prs"
    /\ col_commits_data' = StorePrCommits(pr_results, 1, col_commits_data)
    /\ fetched_commits' = fetched_commits \cup
          { CollectedCommit(pr_results[i].owner, pr_results[i].repo, PrShas[i], i) :
               i \in {j \in 1..Len(pr_results) : pr_results[j].fetched} }
    /\ colPc' = "search"
    /\ UNCHANGED <<pr_results, commit_results, cloned_repos, forked_repos>>
    /\ CollectFrame

\* lines 209-245
CollectSearchHits ==
    /\ colPc = "search"
    /\ col_commits_data' = StoreSearchCommits(commit_results, 1, col_commits_data)
    /\ CollectFrom(col_commits_data, col_commits_data')
    /\ colPc' = "clones"
    /\ UNCHANGED <<pr_results, commit_results, cloned_repos, forked_repos>>
    /\ CollectFrame

\* lines 250-263
CollectClones ==
    /\ colPc = "clones"
    /\ col_commits_data' = StoreCloneCommits(cloned_repos, col_commits_data)
    /\ CollectFrom(col_commits_data, col_commits_data')
    /\ colPc' = "forks"
    /\ UNCHANGED <<pr_results, commit_results, cloned_repos, forked_repos>>
    /\ CollectFrame

\* lines 265-300
CollectForks ==
    /\ colPc = "forks"
    /\ col_commits_data' = StoreForkCommits(forked_repos, col_commits_data)
    /\ CollectFrom(col_commits_data, col_commits_data')
    /\ colPc' = "returned"
    /\ UNCHANGED <<pr_results, commit_results, cloned_repos, forked_repos>>
    /\ CollectFrame

NextCollect ==
    \/ CollectPullRequests
    \/ CollectSearchHits
    \/ CollectClones
    \/ CollectForks

(***************************************************************************)
(* Specifications                                                          *)
(***************************************************************************)
\* the state of a component that a specification does not run
IdleApi ==
    /\ apiPc = "returned" /\ retry_count = 0 /\ requests_issued = 0 /\ sleeps = 0
    /\ api_result = <<>> /\ last_response = NoResponse /\ last_sleep = <<>>
    /\ only_rate_limited = TRUE

IdlePages ==
    /\ pgPc = "returned" /\ upstream = [items |-> <<>>, shape |-> "array"]
    /\ limit = <<>> /\ results = <<>> /\ all_results = <<>>
    /\ page_requests = <<>> /\ batch_start = 0 /\ page_outcome = <<>>
    /\ pg_return = <<>>

IdleCat ==
    /\ catPc = "done" /\ commits = <<>> /\ commit_idx = 1
    /\ owner_identities = {username} /\ owner_name_email_pairs = {}
    /\ changed = FALSE /\ passes = 0 /\ pass_added = {}

IdleDate ==
    /\ datePc = "returned" /\ commits_data = <<>>
    /\ account_created_at = [tick |-> 10, off |-> 0]
    /\ repo_idx = 1 /\ date_filter = <<>>

IdleExt ==
    /\ extPc = "done" /\ data_commits = <<>>
    /\ pull_requests_to_other_repos = <<>> /\ duplicate_hashes_found = <<>>
    /\ commits_to_other_repos_list = <<>> /\ report_runs = 1

IdleSim ==
    /\ simPc = "returned" /\ sim_commits = <<>> /\ sim_idx = 1
    /\ search_requests = <<>> /\ filtered_commits = <<>>

IdleClone ==
    /\ clonePc = "returned" /\ REMOVE_REPO = TRUE /\ has_token = FALSE
    /\ owned_repos = <<>> /\ clone_results = <<>> /\ clone_outcome = <<>>
    /\ scratch_dirs = {} /\ clone_commits_data = <<>> /\ failed_repos = <<>>

IdleRun ==
    /\ runPc = "new_analyzer" /\ run_target = UsernameArg /\ upstream_owner = <<>>
    /\ analyzer_data = <<>> /\ report_file = <<>> /\ reports_written = <<>>

IdleEmails ==
    /\ emailPc = "returned" /\ all_contributors = {}
    /\ categorized = [owner_emails |-> {}, contributors_emails |-> {},
                      other_emails |-> {}]

IdleReport ==
    /\ reportPc = "returned" /\ self_data = <<>> /\ saved_report = <<>>

IdleBatch ==
    /\ batchPc = "done" /\ targets = <<>> /\ regenerate = FALSE
    /\ commit_search = FALSE /\ target_idx = 1 /\ report_files = <<>>
    /\ outcomes = <<>>

IdleMake ==
    /\ mkPc = "returned" /\ attempt = 0 /\ mk_responses = <<>>
    /\ mk_sleeps = <<>> /\ mk_result = <<>>

IdleConc ==
    /\ concPc = "processed" /\ conc_mode = "threads" /\ n_inputs = 0
    /\ conc_outcome = <<>> /\ conc_batch_start = 1 /\ overtaken = FALSE
    /\ comments_results = <<>> /\ cleaned_comments = <<>>

IdleSave ==
    /\ savePc = "saved" /\ previous_file = NoFile /\ file_on_disk = NoFile
    /\ new_document = <<>>

IdleMonitor ==
    /\ monPc = "done" /\ arg_username = <<>> /\ arg_targets = <<>>
    /\ arg_only_profile = FALSE /\ mon_idx = 1 /\ interrupts_caught = 0
    /\ api_requests = <<>>

IdleCollect ==
    /\ colPc = "returned" /\ pr_results = <<>> /\ commit_results = <<>>
    /\ cloned_repos = <<>> /\ forked_repos = <<>> /\ col_commits_data = <<>>
    /\ fetched_commits = {}

ApiInit     ==
    InitApi /\ IdlePages /\ IdleCat /\ IdleDate /\ IdleExt /\ IdleSim
    /\ IdleClone /\ IdleRun /\ IdleEmails /\ IdleReport /\ IdleBatch /\ IdleMake
    /\ IdleConc /\ IdleSave /\ IdleMonitor /\ IdleCollect
PagesInit   ==
    IdleApi /\ InitPages /\ IdleCat /\ IdleDate /\ IdleExt /\ IdleSim
    /\ IdleClone /\ IdleRun /\ IdleEmails /\ IdleReport /\ IdleBatch /\ IdleMake
    /\ IdleConc /\ IdleSave /\ IdleMonitor /\ IdleCollect
CatInit     ==
    IdleApi /\ IdlePages /\ InitCat /\ IdleDate /\ IdleExt /\ IdleSim
    /\ IdleClone /\ IdleRun /\ IdleEmails /\ IdleReport /\ IdleBatch /\ IdleMake
    /\ IdleConc /\ IdleSave /\ IdleMonitor /\ IdleCollect
DateInit    ==
    IdleApi /\ IdlePages /\ IdleCat /\ InitDate /\ IdleExt /\ IdleSim
    /\ IdleClone /\ IdleRun /\ IdleEmails /\ IdleReport /\ IdleBatch /\ IdleMake
    /\ IdleConc /\ IdleSave /\ IdleMonitor /\ IdleCollect
ExtInit     ==
    IdleApi /\ IdlePages /\ IdleCat /\ IdleDate /\ InitExt /\ IdleSim
    /\ IdleClone /\ IdleRun /\ IdleEmails /\ IdleReport /\ IdleBatch /\ IdleMake
    /\ IdleConc /\ IdleSave /\ IdleMonitor /\ IdleCollect
SimInit     ==
    IdleApi /\ IdlePages /\ IdleCat /\ IdleDate /\ IdleExt /\ InitSim
    /\ IdleClone /\ IdleRun /\ IdleEmails /\ IdleReport /\ IdleBatch /\ IdleMake
    /\ IdleConc /\ IdleSave /\ IdleMonitor /\ IdleCollect
CloneInit   ==
    IdleApi /\ IdlePages /\ IdleCat /\ IdleDate /\ IdleExt /\ IdleSim
    /\ InitClone /\ IdleRun /\ IdleEmails /\ IdleReport /\ IdleBatch /\ IdleMake
    /\ IdleConc /\ IdleSave /\ IdleMonitor /\ IdleCollect
RunInit     ==
    IdleApi /\ IdlePages /\ IdleCat /\ IdleDate /\ IdleExt /\ IdleSim
    /\ IdleClone /\ InitRun /\ IdleEmails /\ IdleReport /\ IdleBatch /\ IdleMake
    /\ IdleConc /\ IdleSave /\ IdleMonitor /\ IdleCollect
EmailsInit  ==
    IdleApi /\ IdlePages /\ IdleDate /\ IdleExt /\ IdleSim /\ IdleClone
    /\ IdleRun /\ InitEmails /\ IdleReport /\ IdleBatch /\ IdleMake /\ IdleConc
    /\ IdleSave /\ IdleMonitor /\ IdleCollect
ReportInit  ==
    IdleApi /\ IdlePages /\ IdleCat /\ IdleDate /\ IdleExt /\ IdleSim
    /\ IdleClone /\ IdleRun /\ IdleEmails /\ InitReport /\ IdleBatch /\ IdleMake
    /\ IdleConc /\ IdleSave /\ IdleMonitor /\ IdleCollect
BatchInit   ==
    IdleApi /\ IdlePages /\ IdleCat /\ IdleDate /\ IdleExt /\ IdleSim
    /\ IdleClone /\ IdleRun /\ IdleEmails /\ IdleReport /\ InitBatch /\ IdleMake
    /\ IdleConc /\ IdleSave /\ IdleMonitor /\ IdleCollect
MakeInit    ==
    IdleApi /\ IdlePages /\ IdleCat /\ IdleDate /\ IdleExt /\ IdleSim
    /\ IdleClone /\ IdleRun /\ IdleEmails /\ IdleReport /\ IdleBatch /\ InitMake
    /\ IdleConc /\ IdleSave /\ IdleMonitor /\ IdleCollect
ConcInit    ==
    IdleApi /\ IdlePages /\ IdleCat /\ IdleDate /\ IdleExt /\ IdleSim
    /\ IdleClone /\ IdleRun /\ IdleEmails /\ IdleReport /\ IdleBatch /\ IdleMake
    /\ InitConc /\ IdleSave /\ IdleMonitor /\ IdleCollect
SaveInit    ==
    IdleApi /\ IdlePages /\ IdleCat /\ IdleDate /\ IdleExt /\ IdleSim
    /\ IdleClone /\ IdleRun /\ IdleEmails /\ IdleReport /\ IdleBatch /\ IdleMake
    /\ IdleConc /\ InitSave /\ IdleMonitor /\ IdleCollect
MonitorInit ==
    IdleApi /\ IdlePages /\ IdleCat /\ IdleDate /\ IdleExt /\ IdleSim
    /\ IdleClone /\ IdleRun /\ IdleEmails /\ IdleReport /\ IdleBatch /\ IdleMake
    /\ IdleConc /\ IdleSave /\ InitMonitor /\ IdleCollect
CollectInit ==
    IdleApi /\ IdlePages /\ IdleCat /\ IdleDate /\ IdleExt /\ IdleSim
    /\ IdleClone /\ IdleRun /\ IdleEmails /\ IdleReport /\ IdleBatch /\ IdleMake
    /\ IdleConc /\ IdleSave /\ IdleMonitor /\ InitCollect

\* one call of github_api_request
SpecApi   == ApiInit /\ [][NextApi]_vars
\* one call of fetch_all_pages
SpecPages == PagesInit /\ [][NextPages]_vars
\* one call of _identify_owner_details
SpecCat   == CatInit /\ [][NextCat]_vars
\* the same call, which runs to completion: a sequential function takes its
\* next step whenever it has one
SpecCatFair == CatInit /\ [][NextCat]_vars /\ WF_vars(NextCat)
\* one call of filter_by_creation_date
SpecDate  == DateInit /\ [][NextDate]_vars
\* generate_report's external-contribution block, run and regenerated
SpecExt   == ExtInit /\ [][NextExt]_vars
\* one similarity search over the commits of a repository
SpecSim   == SimInit /\ [][NextSim]_vars
\* the owned repositories of one fetch_repository_commits call
SpecClone == CloneInit /\ [][NextClone]_vars
\* the full pipeline for one username, run repeatedly on unchanged upstream
SpecRun   == RunInit /\ [][NextRun]_vars
\* one call of categorize_emails
SpecEmails == EmailsInit /\ [][NextEmails]_vars
\* one call of generate_report after run_analysis
SpecReport == ReportInit /\ [][NextReport]_vars
\* one pass of terminal over a targets file
SpecBatch == BatchInit /\ [][NextBatch]_vars
\* one page request of fetch_all_pages for a page after the first
SpecMake == MakeInit /\ [][NextMake]_vars
\* one call of run_concurrent or run_api_requests
SpecConc == ConcInit /\ [][NextConc]_vars
\* one call of save_output
SpecSave == SaveInit /\ [][NextSave]_vars
\* one run of terminal with --monitor
SpecMonitor == MonitorInit /\ [][NextMonitor]_vars
\* one call of fetch_repository_commits
SpecCollect == CollectInit /\ [][NextCollect]_vars

(***************************************************************************)
(* Properties of github_api_request (checked under SpecApi)                *)
(***************************************************************************)
CallEnded == apiPc # "loop"
LastStatusIs(S) == last_response.kind = "http" /\ last_response.status \in S
LastHeaders == last_response.headers
HasHeader(n) == n \in DOMAIN LastHeaders

\* C1: one call issues at most RETRY_LIMIT requests, and a call whose every
\* response was 403 or 429 ends after exactly RETRY_LIMIT requests by
\* returning (None, None).
C1_RetryTermination ==
    /\ requests_issued <= RETRY_LIMIT
    /\ (CallEnded /\ only_rate_limited)
          => /\ requests_issued = RETRY_LIMIT
             /\ apiPc = "returned"
             /\ api_result = NoneNone

\* C5: after a 401 response the call has not returned anything, has not
\* slept, the process has exited, and no further request can be issued.
C5_UnauthorizedIsFatal ==
    /\ LastStatusIs({401})
          => /\ apiPc = "exited"
             /\ api_result = <<>>
             /\ last_sleep = <<>>
    /\ apiPc = "exited" => (LastStatusIs({401}) /\ ~ENABLED NextApi)

\* C5 witness: a 401 arrived after rate-limited attempts and ended the process
C5_Witness ==
    LastStatusIs({401}) /\ apiPc = "exited" /\ retry_count >= 2

\* C6: whatever the status (401 aside) and the headers, a call that ended has
\* returned a (body, headers) pair; no exception reaches the caller.
C6_NeverRaises ==
    (CallEnded /\ ~LastStatusIs({401}))
        => (apiPc = "returned" /\ Len(api_result) = 2)

\* The wait the X-RateLimit headers dictate when Retry-After is absent, as C7
\* states it: max(floor, reset_epoch - now_epoch)
PrimaryWait(floor) ==
    Max(floor, PyInt(LastHeaders[H_Reset]).val - last_response.now)

RetryAfterSeconds == PyInt(LastHeaders[H_RetryAfter])

ExhaustedWithReset ==
    /\ HasHeader(H_Remaining) /\ LastHeaders[H_Remaining] = S_zero
    /\ HasHeader(H_Reset)

\* C7 as stated: on 403/429 the wait is the Retry-After value when the header
\* is present (a number of seconds), else max(1, reset - now) when
\* X-RateLimit-Remaining is 0 and X-RateLimit-Reset is present, for every
\* X-RateLimit-Resource.
C7_WaitFromHeaders ==
    LastStatusIs(RateLimitStatuses) =>
        /\ (HasHeader(H_RetryAfter) /\ RetryAfterSeconds.ok /\ RetryAfterSeconds.val >= 0)
              => last_sleep = <<RetryAfterSeconds.val>>
        /\ (~HasHeader(H_RetryAfter) /\ ExhaustedWithReset
                /\ PyInt(LastHeaders[H_Reset]).ok)
              => last_sleep = <<PrimaryWait(1)>>

\* C7 amended: the Retry-After value when it is a non-negative integer (any
\* other value makes the call raise and nothing is waited); else, with
\* X-RateLimit-Remaining "0" and an integer X-RateLimit-Reset, the wait is
\* max(30, reset - now) when X-RateLimit-Resource is "search" and
\* max(1, reset - now) for every other resource.
C7_WaitFromHeadersAmended ==
    LastStatusIs(RateLimitStatuses) =>
        /\ HasHeader(H_RetryAfter) =>
              IF RetryAfterSeconds.ok /\ RetryAfterSeconds.val >= 0
              THEN last_sleep = <<RetryAfterSeconds.val>> /\ apiPc # "raised"
              ELSE last_sleep = <<>> /\ apiPc = "raised"
        /\ (~HasHeader(H_RetryAfter) /\ ExhaustedWithReset
                /\ PyInt(LastHeaders[H_Reset]).ok)
              => IF HasHeader(H_Resource) /\ LastHeaders[H_Resource] = S_search
                 THEN last_sleep = <<PrimaryWait(30)>>
                 ELSE last_sleep = <<PrimaryWait(1)>>

\* C7 witness: a rate-limited response carrying Retry-After as well as an
\* exhausted X-RateLimit-Remaining with a reset time, waited Retry-After long
C7_Witness ==
    /\ LastStatusIs(RateLimitStatuses)
    /\ HasHeader(H_RetryAfter) /\ LastHeaders[H_RetryAfter] = <<"7">>
    /\ ExhaustedWithReset /\ LastHeaders[H_Reset] = <<"9", "5">>
    /\ last_sleep = <<7>>

\* C8: on 403/429 with neither Retry-After nor an exhausted
\* X-RateLimit-Remaining with a reset time, the wait before the n-th retry is
\* min(2^(n-1), 60) seconds (stated here for responses without an
\* X-RateLimit-Resource header).
C8_ExponentialBackoff ==
    (/\ LastStatusIs(RateLimitStatuses)
     /\ ~HasHeader(H_RetryAfter)
     /\ ~ExhaustedWithReset
     /\ ~HasHeader(H_Resource))
        => last_sleep = <<Min(2 ^ (retry_count - 1), 60)>>

\* C9: a response with any other status, or a transport exception, ends the
\* call at once with (None, None): no sleep follows it and no further
\* request can be issued.
C9_OtherStatusReturnsAtOnce ==
    /\ ( \/ LastStatusIs(Statuses \ {200, 304, 401, 403, 429})
         \/ last_response.kind = "exception" )
          => /\ apiPc = "returned"
             /\ api_result = NoneNone
             /\ last_sleep = <<>>
    /\ apiPc = "returned" => ~ENABLED NextApi

\* C9 witness: a 500 after two rate-limited attempts ended the call
C9_Witness ==
    /\ LastStatusIs({500}) /\ apiPc = "returned" /\ api_result = NoneNone
    /\ retry_count = 2 /\ requests_issued = 3 /\ sleeps = 2

(***************************************************************************)
(* Properties of fetch_all_pages (checked under SpecPages)                 *)
(***************************************************************************)
NoPageFailed == \A p \in DOMAIN page_outcome : page_outcome[p] \in {"ok", "unfetched"}
FailedPages  == {p \in DOMAIN page_outcome : page_outcome[p] \in {"fail", "exc"}}
FirstFailed  == CHOOSE p \in FailedPages : \A q \in FailedPages : p <= q

\* the provider's items on the pages before page p
ItemsBefore(p) == Take(upstream.items, (p - 1) * PerPage)

\* C2: with limit = k >= 0 the call returns at most k items, and exactly the
\* first k items in provider order when the provider holds at least k items
\* and no page fetch failed.
C2_LimitRespected ==
    (pgPc = "returned" /\ limit # <<>>) =>
        /\ Len(pg_return) <= limit[1]
        /\ (Len(upstream.items) >= limit[1] /\ NoPageFailed)
              => pg_return = Take(upstream.items, limit[1])

\* C4: when the fetch of a page fails (the fetcher returns None for it), the
\* call returns exactly the items of the pages before the first failed page
\* and nothing of a later page (stated here for calls without a limit in
\* which no fetch left an exception object in the batch results).
C4_StopsAtFailedPage ==
    (/\ pgPc = "returned"
     /\ limit = <<>>
     /\ FailedPages # {}
     /\ \A p \in FailedPages : page_outcome[p] = "fail")
        => pg_return = ItemsBefore(FirstFailed)

(***************************************************************************)
(* Properties of _identify_owner_details (checked under SpecCat)           *)
(***************************************************************************)
\* the (name, email) pairs of the author and committer fields
CommitPairs(cs) ==
    {<<cs[i].author_name, cs[i].author_email>> : i \in 1..Len(cs)}
       \cup {<<cs[i].committer_name, cs[i].committer_email>> : i \in 1..Len(cs)}

\* The least fixed point of the propagation rules over the pairs P, from the
\* seed (ids, pairs): a pair whose lower-cased name is an owner identity is an
\* owner pair; a name used with the email of an owner pair is an owner identity.
RECURSIVE Saturate(_, _, _)
Saturate(P, ids, pairs) ==
    LET pairs2 == pairs \cup {q \in P : Lower(q[1]) \in ids}
        ids2   == ids \cup {Lower(q[1]) :
                      q \in {r \in P : \E o \in pairs2 : Lower(r[2]) = Lower(o[2])}}
    IN IF pairs2 = pairs /\ ids2 = ids
       THEN [ids |-> ids, pairs |-> pairs]
       ELSE Saturate(P, ids2, pairs2)

LeastFixedPoint(cs) ==
    LET P    == CommitPairs(cs)
        seed == {q \in P : StrIn(username, Lower(q[2]))}
    IN Saturate(P, {username} \cup {Lower(q[1]) : q \in seed}, seed)

\* C3: when _identify_owner_details returns, the owner pairs are exactly the
\* least fixed point of the propagation rules, whatever the order of the
\* commits; in particular no commit has its name in owner_identities while
\* its (name, email) pair is missing from owner_name_email_pairs.
C3_OwnerIsLeastFixedPoint ==
    catPc = "done" =>
        /\ owner_name_email_pairs = LeastFixedPoint(commits).pairs
        /\ \A q \in CommitPairs(commits) :
              Lower(q[1]) \in owner_identities => q \in owner_name_email_pairs

\* C18: _identify_owner_details terminates; a completed pass that added no
\* pair is the last one, so the passes never number more than the distinct
\* (name, email) pairs of the commits plus one.
C18_TerminatesWithinPairPasses ==
    /\ <>(catPc = "done")
    /\ [](passes <= Cardinality(CommitPairs(commits)) + 1)
    /\ [](catPc = "while" /\ passes >= 1 /\ pass_added = {} => ~changed)

\* C18 witness: the call ended after three passes, the last of which added
\* nothing.
C18_Witness ==
    /\ catPc = "done"
    /\ passes = 3
    /\ pass_added = {}

(***************************************************************************)
(* Properties of filter_by_creation_date (checked under SpecDate)          *)
(***************************************************************************)
\* the repositories the call hands back as flagged; a call that raised hands
\* back nothing
Flagged ==
    IF datePc = "returned"
    THEN {date_filter[i].repo : i \in 1..Len(date_filter)}
    ELSE {}

\* the author date a commit record carries, whichever producer built it
AuthorDate(rec) ==
    IF HasKey(rec, "commit") THEN rec.commit.author.date ELSE rec.date

\* C10: once filter_by_creation_date has ended, a repository is flagged if
\* and only if it has at least one commit and the author date of the last
\* element of its history is an instant strictly earlier than the account's
\* created_at.
C10_FlaggedIffStrictlyEarlier ==
    datePc \in {"returned", "raised"} =>
        \A r \in 1..Len(commits_data) :
            LET h == commits_data[r] IN
            r \in Flagged <=>
                /\ Len(h) >= 1
                /\ AuthorDate(h[Len(h)]).tick - AuthorDate(h[Len(h)]).off
                      < account_created_at.tick - account_created_at.off

(***************************************************************************)
(* Properties of generate_report's external contributions (SpecExt)        *)
(***************************************************************************)
SeqToSet(q) == {q[i] : i \in 1..Len(q)}

\* the external repository keys of the report's commits that have a SHA
ExternalKeysWithSha ==
    {k \in DictKeys(data_commits) :
        IsExternalKey(k) /\ ShaSet(DictGet(data_commits, k)) # {}}

\* the SHAs recorded under the user's own repositories
OwnShas ==
    UNION { ShaSet(DictGet(data_commits, k)) :
            k \in {q \in DictKeys(data_commits) : ~IsExternalKey(q)} }

ClassifiedByShas(k) ==
    /\ k \in SeqToSet(duplicate_hashes_found)
          <=> ShaSet(DictGet(data_commits, k)) \subseteq OwnShas
    /\ k \in SeqToSet(commits_to_other_repos_list)
          <=> ~(ShaSet(DictGet(data_commits, k)) \subseteq OwnShas)

\* C11 (as stated): when the classification is done, every external key with
\* at least one SHA is in duplicate_hashes_found if all its SHAs are among the
\* user's own SHAs, in commits_to_other_repos otherwise, and never in both.
C11_EveryExternalKeyClassified ==
    extPc = "done" => \A k \in ExternalKeysWithSha : ClassifiedByShas(k)

\* C11 (amended): the classification covers the external keys that are not
\* keys of pull_requests_to_other_repos; an external key that is one (it was
\* already in owner/repo form and has a commit with a pull-request number) is
\* in neither list.
C11_ExternalKeyClassifiedUnlessPr ==
    extPc = "done" =>
        \A k \in ExternalKeysWithSha :
            IF k \in DictKeys(pull_requests_to_other_repos)
            THEN /\ k \notin SeqToSet(duplicate_hashes_found)
                 /\ k \notin SeqToSet(commits_to_other_repos_list)
            ELSE ClassifiedByShas(k)

\* C11 witness: an external key with two SHAs, both also under an own
\* repository, was classified as a duplicate.
C11_Witness ==
    /\ extPc = "done"
    /\ \E k \in ExternalKeysWithSha :
          /\ Cardinality(ShaSet(DictGet(data_commits, k))) = 2
          /\ duplicate_hashes_found = <<k>>
          /\ commits_to_other_repos_list = <<>>

(***************************************************************************)
(* Properties of the similarity search (SpecSim)                           *)
(***************************************************************************)
\* the denylist as written: every string literal of the list
DenylistLiterals == {DenylistSource[i].text : i \in 1..Len(DenylistSource)}

\* m is no literal of the list and is one substitution, insertion or deletion
\* of a character away from one
OneCharAway(m, e) ==
    \/ /\ Len(m) = Len(e)
       /\ Cardinality({i \in 1..Len(m) : m[i] # e[i]}) = 1
    \/ /\ Len(m) = Len(e) + 1
       /\ \E i \in 1..Len(m) : SubSeq(m, 1, i - 1) \o SubSeq(m, i + 1, Len(m)) = e
    \/ /\ Len(e) = Len(m) + 1
       /\ \E i \in 1..Len(e) : SubSeq(e, 1, i - 1) \o SubSeq(e, i + 1, Len(e)) = m

OneCharVariant(m) ==
    m \notin DenylistLiterals /\ \E e \in DenylistLiterals : OneCharAway(m, e)

SimMessage(rec) == IF HasKey(rec, "commit") THEN rec.commit.message ELSE rec.message

Searched(m) == \E i \in 1..Len(search_requests) : search_requests[i] = m

\* C12: once the similarity search over a repository's commits has ended, no
\* request was issued for a message equal to an entry of the denylist, and a
\* request was issued for every message that is a one-character variant of an
\* entry.
C12_DenylistedNeverSearchedVariantSearched ==
    simPc \in {"returned", "type_error", "key_error"} =>
        \A i \in 1..Len(sim_commits) :
            LET m == SimMessage(sim_commits[i]) IN
            /\ m \in DenylistLiterals => ~Searched(m)
            /\ OneCharVariant(m) => Searched(m)

(***************************************************************************)
(* Properties of the clone step (SpecClone)                                *)
(***************************************************************************)
Finished(i) == clone_outcome[i] # "pending"

\* C13 (as stated): whenever _fetch_single_repo_commits has finished for a
\* repository, on any path, the repository's scratch directory does not exist.
C13_ScratchAlwaysRemoved ==
    \A i \in 1..Len(owned_repos) :
        Finished(i) => owned_repos[i].name \notin scratch_dirs

\* C13 (amended): with REMOVE_REPO set, the scratch directory of a finished
\* repository does not exist, on every path; with REMOVE_REPO unset, the
\* directory of a repository whose clone succeeded is still there.
C13_ScratchRemovedIfConfigured ==
    \A i \in 1..Len(owned_repos) :
        Finished(i) =>
            IF REMOVE_REPO
            THEN owned_repos[i].name \notin scratch_dirs
            ELSE clone_outcome[i] \in {"ok", "enum_error"}
                    => owned_repos[i].name \in scratch_dirs

\* C13 witness: with REMOVE_REPO set, one repository finished after a failed
\* clone and another after an enumeration error, and no directory is left.
C13_Witness ==
    /\ REMOVE_REPO
    /\ Len(owned_repos) = 2
    /\ clone_outcome[1] = "clone_failed"
    /\ clone_results[1].error[1].reason = "with_and_without"
    /\ clone_outcome[2] = "enum_error"
    /\ scratch_dirs = {}

FailureRecordsFor(name) ==
    {k \in 1..Len(failed_repos) : failed_repos[k].repo_name = name}

CloneFailed(i) == clone_outcome[i] = "clone_failed"

\* the results of the repositories whose clone did not fail, in order
RECURSIVE ResultsWithoutCloneFailures(_)
ResultsWithoutCloneFailures(i) ==
    IF i > Len(owned_repos) THEN <<>>
    ELSE IF CloneFailed(i) THEN ResultsWithoutCloneFailures(i + 1)
    ELSE <<clone_results[i]>> \o ResultsWithoutCloneFailures(i + 1)

C15_EmptyRepoMapsToEmptyList ==
    clonePc = "returned" =>
        \A i \in 1..Len(owned_repos) :
            clone_outcome[i] \in {"ok", "enum_error"} /\ owned_repos[i].history = <<>> =>
                /\ owned_repos[i].name \in DictKeys(clone_commits_data)
                /\ DictGet(clone_commits_data, owned_repos[i].name) = <<>>
                /\ FailureRecordsFor(owned_repos[i].name) = {}

(***************************************************************************)
(* Properties of repeated runs (SpecRun)                                   *)
(***************************************************************************)
\* C16: the report persisted by the second run of the full pipeline, which
\* starts from the report the first run persisted, equals the first run's
\* report (the model has no wall-clock field).
C16_SecondRunWritesSameReport ==
    Len(reports_written) >= 2 => reports_written[2] = reports_written[1]

(***************************************************************************)
(* Properties of categorize_emails (SpecEmails)                            *)
(***************************************************************************)
\* the (name, email) pairs of the author and committer fields with a
\* non-empty name and a non-empty email
FieldPairs ==
    { q \in UNION { { <<commits[i].author_name, commits[i].author_email>>,
                      <<commits[i].committer_name, commits[i].committer_email>> } :
                    i \in 1..Len(commits) } :
        q[1] # <<>> /\ q[2] # <<>> }

GitHubPair == <<N_GitHub, E_noreply>>

ListsHolding(q) ==
    {c \in DOMAIN categorized : q \in categorized[c]}

DocumentedKeys ==
    {"profile_info", "original_repos_count", "forked_repos_count",
     "unique_emails", "dprk_naming", "identity_rotation", "mutual_followers",
     "potential_copy", "contributors", "following", "followers", "repo_list",
     "forked_repo_list", "pull_requests_to_other_repos",
     "commits_to_other_repos", "duplicate_hashes_found", "repos", "commits",
     "errors", "commit_filter", "recent_events", "received_events", "issues",
     "comments", "organizations_member"}

\* the key of self.data a report key is read from, for the keys that are
\* copied from the collected data
CollectedUnder(k) == IF k = "potential_copy" THEN "date_filter" ELSE k
CopiedKeys ==
    {"potential_copy", "contributors", "following", "commits", "errors",
     "commit_filter", "recent_events", "received_events", "issues", "comments",
     "organizations_member"}

ReportOf(files, user) ==
    IF ReportFile(user) \in DOMAIN files
    THEN <<files[ReportFile(user)]>> ELSE <<>>

\* C20: unless the program exits on a fatal answer, the processing of a
\* target, failed or not, is followed by the next target (the loop ends only
\* after every target was processed), and it leaves the report of every
\* earlier target with another username as it was
C20_FailureIsolatedInBatch ==
    /\ [](batchPc = "done" => Len(outcomes) = Len(targets))
    /\ [][(batchPc = "loop" /\ target_idx <= Len(targets) /\ batchPc' # "exited")
            => /\ target_idx' = target_idx + 1
               /\ batchPc' = "loop"
               /\ \A i \in 1..(target_idx - 1) :
                     targets[i] # targets[target_idx]
                        => ReportOf(report_files', targets[i])
                              = ReportOf(report_files, targets[i])]_vars

\* the second of three targets failed, the third was processed and saved,
\* and the report the first target wrote is still the one on disk
C20_Witness ==
    /\ batchPc = "done"
    /\ Len(targets) = 3
    /\ targets[1] \notin {targets[2], targets[3]}
    /\ outcomes = <<"saved", "error", "saved">>
    /\ ReportOf(report_files, targets[1]) = <<[of |-> targets[1], written_at |-> 1]>>
    /\ ReportOf(report_files, targets[3]) = <<[of |-> targets[3], written_at |-> 3]>>

(***************************************************************************)
(* Properties of dprk_naming (SpecRun)                                     *)
(***************************************************************************)
\* the matches among the username and the owner entries of one report,
\* grouped by category, empty categories left out
MatchesOfRun(user, report) ==
    DropEmpty(OwnerMatches(report.unique_emails.owner,
                           [usernames |-> IF DprkMatch(user) THEN <<user>> ELSE <<>>,
                            email_names |-> <<>>]))

\* C21: the dprk_naming of every report lists the username and every owner
\* name and owner email local part of that same report that match
\* ^[a-zA-Z]+[0-9]{4}$, grouped by category, empty categories omitted
C21_DprkNamingListsMatchesOfRun ==
    \A i \in 1..Len(reports_written) :
        reports_written[i].dprk_naming = MatchesOfRun(run_target, reports_written[i])

(***************************************************************************)
(* Properties of potential_copy after a full run (SpecDate)                *)
(***************************************************************************)
\* report_data["potential_copy"] = self.data.get("date_filter", []): the
\* flagged repositories, none when filter_created_at did not assign the key
PotentialCopy == Flagged

\* every record of the history was built by GitCommit.to_dict, as
\* fetch_repository_commits builds them
ClonedHistory(h) == \A i \in 1..Len(h) : ~HasKey(h[i], "commit")

\* C22: after a full run, potential_copy holds a flag record for every
\* cloned repository one of whose commits (hence the earliest) predates the
\* account's created_at
C22_PredatingCloneIsFlagged ==
    datePc \in {"returned", "raised"} =>
        \A r \in 1..Len(commits_data) :
            LET h == commits_data[r] IN
            (/\ ClonedHistory(h)
             /\ \E i \in 1..Len(h) :
                   h[i].date.tick - h[i].date.off
                      < account_created_at.tick - account_created_at.off)
               => r \in PotentialCopy

(***************************************************************************)
(* Properties of pull_requests_to_other_repos after a full run (SpecExt)   *)
(***************************************************************************)
\* C23: when the first generate_report on freshly collected commits is done,
\* every repository of another owner with a commit that carries a
\* pull-request number is a key of pull_requests_to_other_repos, listed with
\* that number, and every key of pull_requests_to_other_repos and of
\* commits_to_other_repos is a repository of another owner
C23_PrRepositoriesListed ==
    (extPc = "done" /\ report_runs = 1) =>
        /\ \A i \in 1..Len(data_commits) :
              IsExternalKey(data_commits[i].key) =>
                 \A j \in 1..Len(data_commits[i].val) :
                    data_commits[i].val[j].pull_request # "" =>
                       data_commits[i].val[j].pull_request \in
                          SeqToSet(DictGet(pull_requests_to_other_repos,
                                           data_commits[i].key))
        /\ \A k \in DictKeys(pull_requests_to_other_repos)
                       \cup SeqToSet(commits_to_other_repos_list) :
              IsExternalKey(k)

(***************************************************************************)
(* Properties of a run whose run_analysis failed (SpecReport)              *)
(***************************************************************************)
\* a step of run_analysis raised: the keys from that step on are unassigned
RunAnalysisFailed ==
    \E i \in 1..Len(AnalysisSteps) : AnalysisSteps[i] \notin DOMAIN self_data

\* C24: a run in which a step of run_analysis failed persists no report
C24_FailedRunPersistsNothing ==
    RunAnalysisFailed => saved_report = <<>>

(***************************************************************************)
(* Properties of the page requests of fetch_all_pages (SpecMake)           *)
(***************************************************************************)
\* the wait github_api_request takes after a 403/429 with this Retry-After
\* header and no X-RateLimit header
PolicyWait(ra) ==
    HandleRateLimit(IF ra = <<>> THEN <<>> ELSE [n \in {H_RetryAfter} |-> ra[1]],
                    50).wait

\* C25: a request for page 2 or later follows github_api_request's policy:
\* it gives up on 403/429 only after RETRY_LIMIT requests, it waits what
\* _handle_rate_limit says, and a 401 answer ends the program
C25_PageRequestFollowsRequestPolicy ==
    /\ (mkPc = "returned"
        /\ \A i \in 1..Len(mk_responses) : mk_responses[i].status \in RateLimitStatuses)
          => Len(mk_responses) = RETRY_LIMIT
    /\ \A i \in 1..Len(mk_sleeps) :
          mk_responses[i].status \in RateLimitStatuses
             => mk_sleeps[i] = PolicyWait(mk_responses[i].retry_after)
    /\ \A i \in 1..Len(mk_responses) :
          mk_responses[i].status = 401 => mkPc = "exited"

(***************************************************************************)
(* Properties of the concurrent executor (SpecConc)                        *)
(***************************************************************************)
\* C26: the returned list has one entry per input, the i-th entry is what
\* the worker of the i-th input left (a failed input has None or its
\* exception there), and every cleaned comment is attributed to the issue
\* its comment list was requested for
C26_ResultsKeepInputOrder ==
    /\ concPc \in {"returned", "processed", "raised"} =>
          /\ Len(comments_results) = n_inputs
          /\ \A i \in 1..n_inputs :
                /\ comments_results[i].of = i
                /\ comments_results[i].kind = "ok" <=> conc_outcome[i] = "ok"
    /\ \A k \in 1..Len(cleaned_comments) :
          cleaned_comments[k].issue = cleaned_comments[k].comments_of

\* six comment requests in two batches, the second failed, a later worker
\* ended before an earlier one, and the comments were processed
C26_Witness ==
    /\ concPc = "processed"
    /\ conc_mode = "api"
    /\ n_inputs = 6
    /\ overtaken
    /\ conc_outcome = [i \in 1..6 |-> IF i = 2 THEN "none" ELSE "ok"]
    /\ Len(cleaned_comments) = 5

(***************************************************************************)
(* Properties of the report file while it is saved (SpecSave)              *)
(***************************************************************************)
\* C27: at every moment of a save, interrupted or failed ones included, the
\* report file is what it was before the save or the complete new document
C27_FileIsOldOrNew ==
    file_on_disk = previous_file \/ file_on_disk = FileWith(new_document)

(***************************************************************************)
(* Properties of the monitor's keyboard interrupt (SpecMonitor)            *)
(***************************************************************************)
\* C28: once monitor has caught a keyboard interrupt the program stops: no
\* exception escapes and no request to the API is issued from then on
C28_InterruptStopsProgram ==
    [][interrupts_caught >= 1 => (api_requests' = api_requests /\ monPc' # "crashed")]_vars

(***************************************************************************)
(* Properties of the collected commits (SpecCollect)                       *)
(***************************************************************************)
\* the commits stored in commits_data when fetch_repository_commits returns
StoredCommits ==
    UNION { {col_commits_data[i].val[j] : j \in 1..Len(col_commits_data[i].val)} :
            i \in 1..Len(col_commits_data) }

\* C29: when fetch_repository_commits returns, every commit that was fetched
\* for some (owner, repository) is in the returned map, and all commits under
\* one key belong to one (owner, repository)
C29_NoCommitLostToNameClash ==
    colPc = "returned" =>
        /\ fetched_commits \subseteq StoredCommits
        /\ \A i \in 1..Len(col_commits_data) :
              \A j, k \in 1..Len(col_commits_data[i].val) :
                 /\ col_commits_data[i].val[j].owner = col_commits_data[i].val[k].owner
                 /\ col_commits_data[i].val[j].repo = col_commits_data[i].val[k].repo

\* the search hits of one external repository whose details were fetched
FetchedHits(owner, repo) ==
    {i \in 1..Len(commit_results) :
        /\ commit_results[i].owner = owner
        /\ commit_results[i].repo = repo
        /\ commit_results[i].fetched}

\* no pull request gave commits for this repository
NotCoveredByPr(owner, repo) ==
    \A i \in 1..Len(pr_results) :
        ~(pr_results[i].owner = owner /\ pr_results[i].repo = repo /\ pr_results[i].fetched)

\* C30: for every external repository without pull-request commits, the
\* commits recorded for it are as many as the search hits for it whose
\* details were fetched
C30_EverySearchHitRecorded ==
    colPc = "returned" =>
        \A owner \in ExternalOwners, repo \in RepoNames :
            NotCoveredByPr(owner, repo) =>
                Cardinality({c \in StoredCommits : c.owner = owner /\ c.repo = repo})
                    = Cardinality(FetchedHits(owner, repo))

\* the input has no two repositories of one name: no pull requests, no
\* clones, no forks, and every search hit is of the same repository
NoNameClash ==
    /\ pr_results = <<>> /\ cloned_repos = <<>> /\ forked_repos = <<>>
    /\ \A i, j \in 1..Len(commit_results) :
          /\ commit_results[i].owner = commit_results[j].owner
          /\ commit_results[i].repo = commit_results[j].repo

\* C30 on inputs without a name clash: the count of recorded commits still
\* has to equal the count of fetched search hits
C30_RecordedWhenNoNameClash ==
    NoNameClash => C30_EverySearchHitRecorded

====
